---- MODULE Spec2Model ----
(***************************************************************************)
(* ArkPunks escrow server (server v2, better-sqlite3 + express).           *)
(*                                                                         *)
(* The server is a single Node.js process: a request handler runs without  *)
(* interruption from one `await` to the next, and other handlers run while *)
(* it is suspended at an `await`.  Every action below is one such segment  *)
(* of a handler.  The tables of the SQLite store are sets/sequences of     *)
(* rows; the escrow wallet is the external Ark wallet the handlers query   *)
(* and send from.                                                          *)
(***************************************************************************)
EXTENDS Integers, Sequences, FiniteSets, TLC

\* ---------------------------------------------------------------- bounds
\* Total number of HTTP requests accepted in one behaviour.
MaxStarted == 6
\* Upper limit on the sats the environment pays into the escrow wallet.
MaxPaidIn == 20000

\* Number of registrations accepted in one behaviour of SpecSupply.
MaxMints == 3

\* ------------------------------------------------------- program constants
DEPOSIT_AMOUNT == 10000
\* maxPunks / maxSupply, the supply the server reports as the maximum.
MAX_TOTAL_PUNKS == 2016

\* ------------------------------------------------------------ input sets
Punks     == {"p1"}
Addrs     == {"A", "B"}
Prices    == {5000}
Outpoints == {"t0:0"}
VtxoValues == {9000, 10000}
Slots     == {1, 2}

NULL == "NULL"
TXID == "txid"

\* `PAYMENT_FAILED: ${error.message}` for the two messages returnPunkToSeller
\* can throw.
PaymentFailedTxid(msg) ==
  IF msg = "Insufficient escrow balance" THEN "PAYMENT_FAILED: Insufficient escrow balance"
  ELSE "PAYMENT_FAILED: Failed to return punk to seller"

StartsWithPaymentFailed(s) ==
  s \in {"PAYMENT_FAILED: Insufficient escrow balance",
         "PAYMENT_FAILED: Failed to return punk to seller"}

\* JavaScript truthiness of a nullable string column.
Truthy(s) == s # NULL

\* vtxoOutpoint.split(':') for the outpoint strings that are sent.
Split(str) ==
  CASE str = "t0:0"   -> <<"t0", "0">>
    [] str = "t0:1"   -> <<"t0", "1">>
    [] str = "t1:0"   -> <<"t1", "0">>
    [] str = "t0:0x"  -> <<"t0", "0x">>
    [] str = "t0:0:9" -> <<"t0", "0", "9">>
    [] str = "t0:x"   -> <<"t0", "x">>
    [] str = ":0"     -> <<"", "0">>
    [] OTHER          -> <<str>>

\* isNaN(parseInt(voutStr, 10)): no leading decimal digit.
IsNaN(voutStr) == voutStr \notin {"0", "1", "9", "0x"}

\* parseInt(voutStr, 10): the leading decimal digits.
ParseInt(voutStr) ==
  CASE voutStr = "1" -> 1
    [] voutStr = "9" -> 9
    [] OTHER         -> 0

\* The entry of the wallet's VTXO list for a well-formed outpoint string.
Vtxo(o, v, spent) ==
  [txid |-> Split(o)[1], vout |-> ParseInt(Split(o)[2]), value |-> v,
   isSpent |-> spent]

\* `${v.txid}:${v.vout}` of an entry of the wallet's VTXO list.
OutpointOf(x) ==
  CASE x.txid = "t0" /\ x.vout = 0 -> "t0:0"
    [] x.txid = "t0" /\ x.vout = 1 -> "t0:1"
    [] x.txid = "t1" /\ x.vout = 0 -> "t1:0"
    [] OTHER -> NULL

VARIABLES
  punks,      \* table punks: set of rows [punk_id, owner_address]
  history,    \* table ownership_history: sequence of [punk_id, from_address, to_address]
  listings,   \* table listings: set of rows
  sales,      \* table sales: sequence of rows
  audit,      \* table audit_log: sequence of [action, punk_id, status]
  balance,    \* escrow wallet: balance.available
  vtxos,      \* escrow wallet: getVtxos(), set of [txid, vout, value, isSpent]
  paidIn,     \* sats paid into the escrow wallet so far
  sent,       \* sends the escrow wallet has made: [what, to, amount, id, punk_id]
  req,        \* suspended async handlers, one per slot
  clock,      \* number of requests accepted so far (Date.now() stand-in)
  last        \* the HTTP response sent most recently

serverVars == <<punks, history, listings, sales, audit, balance, vtxos, paidIn,
                sent, req, clock, last>>

\* State of the programs outside the server process.
VARIABLES
  claimReq,      \* claim-reserve function: suspended handlers, one per slot
  payouts,       \* claim-reserve function: the sends it has made
  metadata,      \* codec: the PunkMetadata handed to compressPunkMetadata
  compressed,    \* codec: result of compressPunkMetadata
  reconstructed, \* codec: result of decompressPunkMetadata
  calls,         \* generator: the calls of generateDeterministicPunk made so far
  verified,      \* escrow wallet: the last call of verifyVtxoInEscrow and its result
  swap,          \* serverless execute: the running handler
  transfers,     \* serverless escrow wallet: the sends it has made
  blob,          \* punk-ownership.json: punkId -> owner
  escrowStore,   \* serverless listing store: punkId -> listing
  retry,         \* retry-failed-payments.js: the running script
  refunder,      \* refund-cancelled-listings script: the running script
  setters        \* ownership store: the setPunkOwner calls in progress

\* State of the wallet helper called on its own and of the serverless
\* functions.
scriptVars == <<retry, refunder>>

toolVars == <<verified, swap, transfers, blob, escrowStore, scriptVars, setters>>

otherVars == <<claimReq, payouts, metadata, compressed, reconstructed, calls,
               toolVars>>

vars == <<serverVars, otherVars>>

dbVars == <<punks, history, listings, sales, audit>>
walletVars == <<balance, vtxos, paidIn, sent>>

\* ------------------------------------------------------------- SQL helpers
NoRow == [punk_id |-> NULL, seller_address |-> NULL, price_sats |-> 0,
          status |-> NULL, created_at |-> 0, punk_vtxo_outpoint |-> NULL,
          buyer_address |-> NULL, payment_txid |-> NULL, deposited_at |-> 0]

\* SELECT * FROM listings WHERE punk_id = ?  (.get(): first row or undefined)
GetListing(p) ==
  IF \E l \in listings : l.punk_id = p
  THEN CHOOSE l \in listings : l.punk_id = p
  ELSE NoRow

\* SELECT * FROM punks WHERE punk_id = ?
PunkExists(p) == \E k \in punks : k.punk_id = p

OwnerOf(p) ==
  IF PunkExists(p) THEN (CHOOSE k \in punks : k.punk_id = p).owner_address
  ELSE NULL

\* UPDATE punks SET owner_address = ? WHERE punk_id = ?
UpdatePunkOwner(p, a) ==
  {IF k.punk_id = p THEN [k EXCEPT !.owner_address = a] ELSE k : k \in punks}

IdleReq == [pc |-> "idle", id |-> 0, kind |-> NULL, punkId |-> NULL,
            addr |-> NULL, outpoint |-> NULL, listing |-> NoRow,
            paymentTxid |-> NULL]

NoResponse == [id |-> 0, kind |-> NULL, punkId |-> NULL, addr |-> NULL,
               code |-> 0, body |-> NULL]

Response(i, k, p, a, c, e) ==
  [id |-> i, kind |-> k, punkId |-> p, addr |-> a, code |-> c, body |-> e]

\* logAudit(action, {punkId, status})
LogAudit(action, p, status) ==
  Append(audit, [action |-> action, punk_id |-> p, status |-> status])

\* A claim-reserve handler that is not running.
IdleClaim == [pc |-> "idle", id |-> 0, userAddress |-> NULL, punkCount |-> 0,
              currentBalance |-> NULL, deficit |-> 0]

\* verifyVtxoInEscrow has not been called on its own.
NotVerified ==
  [vtxoOutpoint |-> NULL, expectedAmount |-> 0, walletOk |-> FALSE,
   exists |-> FALSE, error |-> NULL]

\* punkIds of the serverless stores.
BlobPunks == {"p1", "p2"}

\* { ownership: {}, lastUpdated }
EmptyTable == [p \in BlobPunks |-> NULL]

\* getEscrowListing(punkId) resolving with null.
NoListing == [punkId |-> NULL, sellerArkAddress |-> NULL, price |-> NULL,
              status |-> NULL, buyerAddress |-> NULL, paymentTransferTxid |-> NULL]

\* A serverless execute handler that is not running.
IdleSwap == [pc |-> "idle", id |-> 0, punkId |-> NULL, buyerArkAddress |-> NULL,
             listing |-> NoListing, price |-> 0, fee |-> 0, sellerReceives |-> 0,
             punkValue |-> 0, table |-> EmptyTable, paymentTxid |-> NULL]

\* A maintenance script that is not running; runs counts the runs started.
IdleScript == [pc |-> "idle", runs |-> 0, todo |-> {}, sale |-> NoRow]

\* A setPunkOwner call that has not been made.
IdleSetter == [pc |-> "idle", punkId |-> NULL, ownerAddress |-> NULL,
               table |-> EmptyTable]

\* Nothing outside the server has run.
InitOther ==
  /\ claimReq = [s \in Slots |-> IdleClaim]
  /\ payouts = <<>>
  /\ metadata = NULL
  /\ compressed = NULL
  /\ reconstructed = NULL
  /\ calls = <<>>
  /\ verified = NotVerified
  /\ swap = IdleSwap
  /\ transfers = <<>>
  /\ blob = EmptyTable
  /\ escrowStore = [p \in BlobPunks |-> NoListing]
  /\ retry = IdleScript
  /\ refunder = IdleScript
  /\ setters = [s \in Slots |-> IdleSetter]

Init ==
  /\ punks = {}
  /\ history = <<>>
  /\ listings = {}
  /\ sales = <<>>
  /\ audit = <<>>
  /\ balance = 0
  /\ vtxos = {}
  /\ paidIn = 0
  /\ sent = <<>>
  /\ req = [s \in Slots |-> IdleReq]
  /\ clock = 0
  /\ last = NoResponse
  /\ InitOther

\* ------------------------------------------------------------ environment
\* A seller sends a VTXO to the escrow address.
DepositVtxo(o, v) ==
  /\ paidIn + v <= MaxPaidIn
  /\ ~\E x \in vtxos : OutpointOf(x) = o
  /\ vtxos' = vtxos \cup {Vtxo(o, v, FALSE)}
  /\ balance' = balance + v
  /\ paidIn' = paidIn + v
  /\ UNCHANGED <<dbVars, sent, req, clock, last>>
  /\ UNCHANGED otherVars

\* A buyer sends the price to the escrow address.
BuyerPays(a) ==
  /\ paidIn + a <= MaxPaidIn
  /\ balance' = balance + a
  /\ paidIn' = paidIn + a
  /\ UNCHANGED <<dbVars, vtxos, sent, req, clock, last>>
  /\ UNCHANGED otherVars

\* ------------------------------------------------- POST /api/wallet/register
\* Variant: the conflict branch transfers the punk to the claimant.
Register_Overwrites(addr, btc, p) ==
  /\ clock < MaxStarted
  /\ clock' = clock + 1
  /\ IF PunkExists(p)
     THEN IF OwnerOf(p) = addr
          THEN /\ punks' = UpdatePunkOwner(p, addr)
               /\ history' = history
               /\ last' = Response(clock + 1, "register", p, addr, 200, "refreshed")
          ELSE IF Truthy(btc) /\ OwnerOf(p) = btc
          THEN /\ punks' = UpdatePunkOwner(p, addr)
               /\ history' = Append(history,
                    [punk_id |-> p, from_address |-> btc, to_address |-> addr])
               /\ last' = Response(clock + 1, "register", p, addr, 200,
                                   "migrated_from_bitcoin_address")
          ELSE /\ punks' = UpdatePunkOwner(p, addr)
               /\ history' = Append(history,
                    [punk_id |-> p, from_address |-> OwnerOf(p), to_address |-> addr])
               /\ last' = Response(clock + 1, "register", p, addr, 200,
                                   "conflict_detected")
     ELSE /\ punks' = punks \cup {[punk_id |-> p, owner_address |-> addr]}
          /\ history' = Append(history,
               [punk_id |-> p, from_address |-> NULL, to_address |-> addr])
          /\ last' = Response(clock + 1, "register", p, addr, 200, "registered")
  /\ UNCHANGED <<listings, sales, audit, walletVars, req>>
  /\ UNCHANGED otherVars

\* Variant: a known punkId claimed by another address is inserted again.
Register_InsertsKnown(addr, btc, p) ==
  /\ clock < MaxStarted
  /\ clock' = clock + 1
  /\ IF PunkExists(p) /\ OwnerOf(p) = addr
     THEN /\ punks' = UpdatePunkOwner(p, addr)
          /\ history' = history
          /\ last' = Response(clock + 1, "register", p, addr, 200, "refreshed")
     ELSE /\ punks' = punks \cup {[punk_id |-> p, owner_address |-> addr]}
          /\ history' = Append(history,
               [punk_id |-> p, from_address |-> NULL, to_address |-> addr])
          /\ last' = Response(clock + 1, "register", p, addr, 200, "registered")
  /\ UNCHANGED <<listings, sales, audit, walletVars, req>>
  /\ UNCHANGED otherVars

\* Variant: the refresh branch writes a history row like a transfer.
Register_RefreshAppends(addr, btc, p) ==
  /\ clock < MaxStarted
  /\ clock' = clock + 1
  /\ IF PunkExists(p)
     THEN IF Truthy(btc) /\ OwnerOf(p) = btc /\ OwnerOf(p) # addr
          THEN /\ punks' = UpdatePunkOwner(p, addr)
               /\ history' = Append(history,
                    [punk_id |-> p, from_address |-> btc, to_address |-> addr])
               /\ last' = Response(clock + 1, "register", p, addr, 200,
                                   "migrated_from_bitcoin_address")
          ELSE IF OwnerOf(p) = addr
          THEN /\ punks' = UpdatePunkOwner(p, addr)
               /\ history' = Append(history,
                    [punk_id |-> p, from_address |-> addr, to_address |-> addr])
               /\ last' = Response(clock + 1, "register", p, addr, 200, "refreshed")
          ELSE /\ UNCHANGED <<punks, history>>
               /\ last' = Response(clock + 1, "register", p, addr, 200,
                                   "conflict_detected")
     ELSE /\ punks' = punks \cup {[punk_id |-> p, owner_address |-> addr]}
          /\ history' = Append(history,
               [punk_id |-> p, from_address |-> NULL, to_address |-> addr])
          /\ last' = Response(clock + 1, "register", p, addr, 200, "registered")
  /\ UNCHANGED <<listings, sales, audit, walletVars, req>>
  /\ UNCHANGED otherVars

\* One punk of the request's punks array; the handler has no await.
\* btc = NULL stands for a request without bitcoinAddress.
Register(addr, btc, p) ==
  /\ clock < MaxStarted
  /\ clock' = clock + 1
  /\ IF PunkExists(p)
     THEN IF OwnerOf(p) = addr
          THEN /\ punks' = UpdatePunkOwner(p, addr)
               /\ history' = history
               /\ last' = Response(clock + 1, "register", p, addr, 200, "refreshed")
          ELSE IF Truthy(btc) /\ OwnerOf(p) = btc
          THEN /\ punks' = UpdatePunkOwner(p, addr)
               /\ history' = Append(history,
                    [punk_id |-> p, from_address |-> btc, to_address |-> addr])
               /\ last' = Response(clock + 1, "register", p, addr, 200,
                                   "migrated_from_bitcoin_address")
          ELSE /\ UNCHANGED <<punks, history>>
               /\ last' = Response(clock + 1, "register", p, addr, 200,
                                   "conflict_detected")
     ELSE /\ punks' = punks \cup {[punk_id |-> p, owner_address |-> addr]}
          /\ history' = Append(history,
               [punk_id |-> p, from_address |-> NULL, to_address |-> addr])
          /\ last' = Response(clock + 1, "register", p, addr, 200, "registered")
  /\ UNCHANGED <<listings, sales, audit, walletVars, req>>
  /\ UNCHANGED otherVars

\* ---------------------------------------------------- POST /api/escrow/list
\* Variant: an existing listing is replaced whatever its status.
List_ReplacesActive(p, seller, price) ==
  /\ clock < MaxStarted
  /\ clock' = clock + 1
  /\ LET afterDelete == {l \in listings : l.punk_id # p}
         row == [NoRow EXCEPT !.punk_id = p, !.seller_address = seller,
                              !.price_sats = price, !.status = "pending",
                              !.created_at = clock + 1]
     IN IF PunkExists(p)
        THEN /\ listings' = afterDelete \cup {row}
             /\ audit' = LogAudit("LIST_CREATED", p, "SUCCESS")
             /\ last' = Response(clock + 1, "list", p, seller, 200, "pending")
        ELSE /\ listings' = afterDelete
             /\ audit' = audit
             /\ last' = Response(clock + 1, "list", p, seller, 500, "Failed to create listing")
  /\ UNCHANGED <<punks, history, sales, walletVars, req>>
  /\ UNCHANGED otherVars

\* The handler has no await: it runs as one step.
List(p, seller, price) ==
  /\ clock < MaxStarted
  /\ clock' = clock + 1
  /\ LET existing == GetListing(p)
         exists == existing # NoRow
         active == exists /\ existing.status \in {"pending", "deposited"}
         \* DELETE FROM listings WHERE punk_id = ?  (old sold/cancelled row)
         afterDelete ==
           IF exists /\ existing.status \in {"cancelled", "sold"}
           THEN {l \in listings : l.punk_id # p}
           ELSE listings
         row == [NoRow EXCEPT !.punk_id = p, !.seller_address = seller,
                              !.price_sats = price, !.status = "pending",
                              !.created_at = clock + 1]
         \* INSERT INTO listings: PRIMARY KEY punk_id, FOREIGN KEY -> punks
         insertOk == PunkExists(p) /\ ~\E l \in afterDelete : l.punk_id = p
     IN IF active
        THEN /\ UNCHANGED <<listings, audit>>
             /\ last' = Response(clock + 1, "list", p, seller, 400, "Punk already listed")
        ELSE IF insertOk
        THEN /\ listings' = afterDelete \cup {row}
             /\ audit' = LogAudit("LIST_CREATED", p, "SUCCESS")
             /\ last' = Response(clock + 1, "list", p, seller, 200, "pending")
        ELSE /\ listings' = afterDelete
             /\ audit' = audit
             /\ last' = Response(clock + 1, "list", p, seller, 500, "Failed to create listing")
  /\ UNCHANGED <<punks, history, sales, walletVars, req>>
  /\ UNCHANGED otherVars

\* ------------------------------------------------ suspended async handlers
HasFree == \E s \in Slots : req[s].pc = "idle"

FreeSlot ==
  CHOOSE s \in Slots :
    req[s].pc = "idle" /\ \A t \in Slots : req[t].pc = "idle" => s <= t

\* The handler suspends at an await: its locals are kept in a slot.
Suspend(pc, kind, p, a, o, listing) ==
  /\ HasFree
  /\ req' = [req EXCEPT ![FreeSlot] =
       [pc |-> pc, id |-> clock + 1, kind |-> kind, punkId |-> p, addr |-> a,
        outpoint |-> o, listing |-> listing, paymentTxid |-> NULL]]
  /\ last' = last

\* res.status(code).json(...) of the suspended handler in slot r.
Respond(r, code, body) ==
  /\ last' = Response(req[r].id, req[r].kind, req[r].punkId, req[r].addr, code, body)
  /\ req' = [req EXCEPT ![r] = IdleReq]

\* --------------------------------------------------------- escrow-wallet.js
\* vtxos.find(v => v.txid === txid && v.vout === vout)
Find(txid, vout) == {x \in vtxos : x.txid = txid /\ x.vout = vout}

\* Variant: the amount of the VTXO found is not compared.
VerifyVtxoInEscrow_NoAmount(o, expectedAmount, walletOk) ==
  LET parts == Split(o)
      txid == parts[1]
      invalid == txid = "" \/ Len(parts) < 2 \/ IsNaN(parts[2])
  IN IF ~walletOk THEN [exists |-> FALSE, error |-> "wallet error"]
     ELSE IF invalid THEN [exists |-> FALSE, error |-> "Invalid outpoint format"]
     ELSE IF Find(txid, ParseInt(parts[2])) = {}
     THEN [exists |-> FALSE, error |-> "VTXO not found in escrow wallet"]
     ELSE [exists |-> TRUE, error |-> NULL]

\* verifyVtxoInEscrow(vtxoOutpoint, expectedAmount); walletOk = FALSE is a
\* wallet query that throws.  voutStr is undefined when the string has no
\* ':', and parseInt(undefined) is NaN.
VerifyVtxoInEscrow(o, expectedAmount, walletOk) ==
  LET parts == Split(o)
      txid == parts[1]
      invalid == txid = "" \/ Len(parts) < 2 \/ IsNaN(parts[2])
  IN IF ~walletOk THEN [exists |-> FALSE, error |-> "wallet error"]
     ELSE IF invalid THEN [exists |-> FALSE, error |-> "Invalid outpoint format"]
     ELSE IF Find(txid, ParseInt(parts[2])) = {}
     THEN [exists |-> FALSE, error |-> "VTXO not found in escrow wallet"]
     ELSE IF (CHOOSE x \in Find(txid, ParseInt(parts[2])) : TRUE).value # expectedAmount
     THEN [exists |-> FALSE, error |-> "Amount mismatch"]
     ELSE [exists |-> TRUE, error |-> NULL]

\* returnPunkToSeller, first await: getBalance() and the balance check.
BalanceSufficient(amount) == ~(balance < amount)

\* returnPunkToSeller, second await: wallet.sendBitcoin resolves with a txid.
SendBitcoin(r, what, to, amount) ==
  /\ balance >= amount
  /\ balance' = balance - amount
  /\ sent' = Append(sent, [what |-> what, to |-> to, amount |-> amount,
                           id |-> req[r].id, punk_id |-> req[r].punkId])
  /\ UNCHANGED <<vtxos, paidIn>>

\* ------------------------------------------ POST /api/escrow/update-outpoint
UpdateOutpointStart(p, o) ==
  /\ clock < MaxStarted
  /\ clock' = clock + 1
  /\ LET listing == GetListing(p)
     IN IF listing = NoRow
        THEN /\ last' = Response(clock + 1, "update-outpoint", p, NULL, 404,
                                 "Listing not found")
             /\ req' = req
        ELSE IF listing.status # "pending"
        THEN /\ last' = Response(clock + 1, "update-outpoint", p, NULL, 400,
                                 "Listing not in pending state")
             /\ req' = req
        ELSE Suspend("uo_verify", "update-outpoint", p, NULL, o, listing)
  /\ UNCHANGED <<dbVars, walletVars>>
  /\ UNCHANGED otherVars

\* Date.now(): the number of requests accepted so far (a timestamp column
\* that is NULL holds 0).
Now == clock

\* UPDATE listings SET status = 'deposited', deposited_at = ?,
\* punk_vtxo_outpoint = ? WHERE punk_id = ?
MarkDeposited(p, o) ==
  {IF l.punk_id = p
   THEN [l EXCEPT !.status = "deposited", !.deposited_at = Now,
                  !.punk_vtxo_outpoint = o]
   ELSE l : l \in listings}

\* Variant: the failure branch writes no audit row.
UpdateOutpointVerified_NoAudit(r, walletOk) ==
  /\ req[r].pc = "uo_verify"
  /\ LET verification == VerifyVtxoInEscrow(req[r].outpoint, DEPOSIT_AMOUNT, walletOk)
     IN IF ~verification.exists
        THEN /\ audit' = audit
             /\ listings' = listings
             /\ Respond(r, 400, "Deposit verification failed")
        ELSE /\ listings' = MarkDeposited(req[r].punkId, req[r].outpoint)
             /\ audit' = LogAudit("DEPOSIT_CONFIRMED", req[r].punkId, "SUCCESS")
             /\ Respond(r, 200, "deposited")
  /\ UNCHANGED <<punks, history, sales, walletVars, clock>>
  /\ UNCHANGED otherVars

UpdateOutpointVerified(r, walletOk) ==
  /\ req[r].pc = "uo_verify"
  /\ LET verification == VerifyVtxoInEscrow(req[r].outpoint, DEPOSIT_AMOUNT, walletOk)
     IN IF ~verification.exists
        THEN /\ audit' = LogAudit("DEPOSIT_CONFIRMED", req[r].punkId, "FAILED")
             /\ listings' = listings
             /\ Respond(r, 400, "Deposit verification failed")
        ELSE /\ listings' = MarkDeposited(req[r].punkId, req[r].outpoint)
             /\ audit' = LogAudit("DEPOSIT_CONFIRMED", req[r].punkId, "SUCCESS")
             /\ Respond(r, 200, "deposited")
  /\ UNCHANGED <<punks, history, sales, walletVars, clock>>
  /\ UNCHANGED otherVars

\* ------------------------------------------------- POST /api/escrow/execute
\* Variant: the sends are started without the ownership commit.
OwnershipTransaction_Skipped(p, seller, buyer) ==
  UNCHANGED <<punks, history>>

\* Variant: the owner is updated without the history row.
OwnershipTransaction_NoHistory(p, seller, buyer) ==
  /\ punks' = UpdatePunkOwner(p, buyer)
  /\ history' = history

\* ownershipTransaction: db.transaction(() => { updatePunkOwner.run(...);
\* insertOwnershipHistory.run(...) })
OwnershipTransaction(p, seller, buyer) ==
  /\ punks' = UpdatePunkOwner(p, buyer)
  /\ history' = Append(history,
       [punk_id |-> p, from_address |-> seller, to_address |-> buyer])

\* Variant: the status and payment_txid guards are missing.
ExecuteStart_NoGuards(p, buyer) ==
  /\ clock < MaxStarted
  /\ clock' = clock + 1
  /\ LET listing == GetListing(p)
     IN IF listing = NoRow
        THEN /\ last' = Response(clock + 1, "execute", p, buyer, 404,
                                 "Listing not found")
             /\ UNCHANGED <<req, punks, history>>
        ELSE /\ OwnershipTransaction(p, listing.seller_address, buyer)
             /\ Suspend("ex_pay_balance", "execute", p, buyer, NULL, listing)
  /\ UNCHANGED <<listings, sales, audit, walletVars>>
  /\ UNCHANGED otherVars

\* From the request's arrival to the first await (returnPunkToSeller).
ExecuteStart(p, buyer) ==
  /\ clock < MaxStarted
  /\ clock' = clock + 1
  /\ LET listing == GetListing(p)
     IN IF listing = NoRow
        THEN /\ last' = Response(clock + 1, "execute", p, buyer, 404,
                                 "Listing not found")
             /\ UNCHANGED <<req, punks, history>>
        ELSE IF listing.status # "deposited"
        THEN /\ last' = Response(clock + 1, "execute", p, buyer, 400,
                                 "Listing not available for execution")
             /\ UNCHANGED <<req, punks, history>>
        ELSE IF Truthy(listing.payment_txid)
        THEN /\ last' = Response(clock + 1, "execute", p, buyer, 400,
                                 "Purchase already completed")
             /\ UNCHANGED <<req, punks, history>>
        ELSE /\ OwnershipTransaction(p, listing.seller_address, buyer)
             /\ Suspend("ex_pay_balance", "execute", p, buyer, NULL, listing)
  /\ UNCHANGED <<listings, sales, audit, walletVars>>
  /\ UNCHANGED otherVars

\* UPDATE listings SET status = 'sold', sold_at, buyer_address, buyer_pubkey,
\* payment_txid WHERE punk_id = ?
MarkSold(p, buyer, txid) ==
  {IF l.punk_id = p
   THEN [l EXCEPT !.status = "sold", !.buyer_address = buyer,
                  !.payment_txid = txid]
   ELSE l : l \in listings}

\* The catch block around the two sends.
PaymentCatch(r, msg) ==
  /\ audit' = LogAudit("PAYMENT_FAILED", req[r].punkId, "FAILED")
  /\ listings' = MarkSold(req[r].punkId, req[r].addr, PaymentFailedTxid(msg))
  /\ Respond(r, 500, "Punk transferred but payment to seller failed")
  /\ UNCHANGED <<punks, history, sales>>

\* STEP 3: finalizeTransaction, the SALE_COMPLETED audit row and the response.
Finalize(r) ==
  /\ listings' = MarkSold(req[r].punkId, req[r].addr, req[r].paymentTxid)
  /\ sales' = Append(sales,
       [punk_id |-> req[r].punkId, price_sats |-> req[r].listing.price_sats,
        seller_address |-> req[r].listing.seller_address,
        buyer_address |-> req[r].addr, payment_txid |-> req[r].paymentTxid])
  /\ audit' = LogAudit("SALE_COMPLETED", req[r].punkId, "SUCCESS")
  /\ Respond(r, 200, "Purchase completed successfully")
  /\ UNCHANGED <<punks, history>>

\* Payment send, getBalance resolved.
ExecutePayBalance(r) ==
  /\ req[r].pc = "ex_pay_balance"
  /\ IF BalanceSufficient(req[r].listing.price_sats)
     THEN /\ req' = [req EXCEPT ![r].pc = "ex_pay_send"]
          /\ UNCHANGED <<dbVars, last>>
     ELSE PaymentCatch(r, "Insufficient escrow balance")
  /\ UNCHANGED <<walletVars, clock>>
  /\ UNCHANGED otherVars

\* Payment send, sendBitcoin resolved (ok) or rejected.
ExecutePaySend(r, ok) ==
  /\ req[r].pc = "ex_pay_send"
  /\ IF ok
     THEN /\ SendBitcoin(r, "payment", req[r].listing.seller_address,
                      req[r].listing.price_sats)
          /\ req' = [req EXCEPT ![r].pc = "ex_dep_balance", ![r].paymentTxid = TXID]
          /\ UNCHANGED <<dbVars, last>>
     ELSE /\ PaymentCatch(r, "Failed to return punk to seller")
          /\ UNCHANGED walletVars
  /\ UNCHANGED clock
  /\ UNCHANGED otherVars

\* Deposit return, getBalance resolved.
ExecuteDepBalance(r) ==
  /\ req[r].pc = "ex_dep_balance"
  /\ IF BalanceSufficient(DEPOSIT_AMOUNT)
     THEN /\ req' = [req EXCEPT ![r].pc = "ex_dep_send"]
          /\ UNCHANGED <<dbVars, last>>
     ELSE PaymentCatch(r, "Insufficient escrow balance")
  /\ UNCHANGED <<walletVars, clock>>
  /\ UNCHANGED otherVars

\* Deposit return, sendBitcoin resolved (ok) or rejected.
ExecuteDepSend(r, ok) ==
  /\ req[r].pc = "ex_dep_send"
  /\ IF ok
     THEN /\ SendBitcoin(r, "deposit_return", req[r].listing.seller_address,
                      DEPOSIT_AMOUNT)
          /\ Finalize(r)
     ELSE /\ PaymentCatch(r, "Failed to return punk to seller")
          /\ UNCHANGED walletVars
  /\ UNCHANGED clock
  /\ UNCHANGED otherVars

\* -------------------------------------------------- POST /api/escrow/cancel
\* UPDATE listings SET status = 'cancelled', cancelled_at = ? WHERE punk_id = ?
MarkCancelled(p) ==
  {IF l.punk_id = p THEN [l EXCEPT !.status = "cancelled"] ELSE l : l \in listings}

\* Variant: the seller_address comparison is missing.
CancelStart_NoSellerCheck(p, sellerAddress) ==
  /\ clock < MaxStarted
  /\ clock' = clock + 1
  /\ LET listing == GetListing(p)
     IN IF listing = NoRow
        THEN /\ last' = Response(clock + 1, "cancel", p, sellerAddress, 404,
                                 "Listing not found")
             /\ UNCHANGED <<req, listings, audit>>
        ELSE IF listing.status = "sold"
        THEN /\ last' = Response(clock + 1, "cancel", p, sellerAddress, 400,
                                 "Listing already sold")
             /\ UNCHANGED <<req, listings, audit>>
        ELSE IF listing.status = "deposited"
        THEN /\ Suspend("ca_balance", "cancel", p, sellerAddress, NULL, listing)
             /\ UNCHANGED <<listings, audit>>
        ELSE /\ listings' = MarkCancelled(p)
             /\ audit' = LogAudit("LISTING_CANCELLED", p, "SUCCESS")
             /\ last' = Response(clock + 1, "cancel", p, sellerAddress, 200,
                                 "Listing cancelled")
             /\ req' = req
  /\ UNCHANGED <<punks, history, sales, walletVars>>
  /\ UNCHANGED otherVars

\* Variant: a pending listing is refunded like a deposited one.
CancelStart_RefundsPending(p, sellerAddress) ==
  /\ clock < MaxStarted
  /\ clock' = clock + 1
  /\ LET listing == GetListing(p)
     IN IF listing = NoRow
        THEN /\ last' = Response(clock + 1, "cancel", p, sellerAddress, 404,
                                 "Listing not found")
             /\ UNCHANGED <<req, listings, audit>>
        ELSE IF listing.seller_address # sellerAddress
        THEN /\ last' = Response(clock + 1, "cancel", p, sellerAddress, 403,
                                 "Not your listing")
             /\ UNCHANGED <<req, listings, audit>>
        ELSE IF listing.status = "sold"
        THEN /\ last' = Response(clock + 1, "cancel", p, sellerAddress, 400,
                                 "Listing already sold")
             /\ UNCHANGED <<req, listings, audit>>
        ELSE IF listing.status \in {"deposited", "pending"}
        THEN /\ Suspend("ca_balance", "cancel", p, sellerAddress, NULL, listing)
             /\ UNCHANGED <<listings, audit>>
        ELSE /\ listings' = MarkCancelled(p)
             /\ audit' = LogAudit("LISTING_CANCELLED", p, "SUCCESS")
             /\ last' = Response(clock + 1, "cancel", p, sellerAddress, 200,
                                 "Listing cancelled")
             /\ req' = req
  /\ UNCHANGED <<punks, history, sales, walletVars>>
  /\ UNCHANGED otherVars

\* From the request's arrival to the await of the refund, or to the response
\* when there is nothing to refund.
CancelStart(p, sellerAddress) ==
  /\ clock < MaxStarted
  /\ clock' = clock + 1
  /\ LET listing == GetListing(p)
     IN IF listing = NoRow
        THEN /\ last' = Response(clock + 1, "cancel", p, sellerAddress, 404,
                                 "Listing not found")
             /\ UNCHANGED <<req, listings, audit>>
        ELSE IF listing.seller_address # sellerAddress
        THEN /\ last' = Response(clock + 1, "cancel", p, sellerAddress, 403,
                                 "Not your listing")
             /\ UNCHANGED <<req, listings, audit>>
        ELSE IF listing.status = "sold"
        THEN /\ last' = Response(clock + 1, "cancel", p, sellerAddress, 400,
                                 "Listing already sold")
             /\ UNCHANGED <<req, listings, audit>>
        ELSE IF listing.status = "deposited"
        THEN /\ Suspend("ca_balance", "cancel", p, sellerAddress, NULL, listing)
             /\ UNCHANGED <<listings, audit>>
        ELSE /\ listings' = MarkCancelled(p)
             /\ audit' = LogAudit("LISTING_CANCELLED", p, "SUCCESS")
             /\ last' = Response(clock + 1, "cancel", p, sellerAddress, 200,
                                 "Listing cancelled")
             /\ req' = req
  /\ UNCHANGED <<punks, history, sales, walletVars>>
  /\ UNCHANGED otherVars

\* Variant: the catch block marks the listing cancelled although the refund
\* was not sent.
RefundCatch_MarksCancelled(r) ==
  /\ audit' = LogAudit("REFUND_FAILED", req[r].punkId, "FAILED")
  /\ listings' = MarkCancelled(req[r].punkId)
  /\ Respond(r, 500, "Failed to return punk from escrow")

\* The catch block around the refund send.
RefundCatch(r) ==
  /\ audit' = LogAudit("REFUND_FAILED", req[r].punkId, "FAILED")
  /\ listings' = listings
  /\ Respond(r, 500, "Failed to return punk from escrow")

\* Refund send, getBalance resolved.
CancelBalance(r) ==
  /\ req[r].pc = "ca_balance"
  /\ IF BalanceSufficient(DEPOSIT_AMOUNT)
     THEN /\ req' = [req EXCEPT ![r].pc = "ca_send"]
          /\ UNCHANGED <<listings, audit, last>>
     ELSE RefundCatch(r)
  /\ UNCHANGED <<punks, history, sales, walletVars, clock>>
  /\ UNCHANGED otherVars

\* Refund send, sendBitcoin resolved (ok: the listing is cancelled) or rejected.
CancelSend(r, ok) ==
  /\ req[r].pc = "ca_send"
  /\ IF ok
     THEN /\ SendBitcoin(r, "refund", req[r].addr, DEPOSIT_AMOUNT)
          /\ listings' = MarkCancelled(req[r].punkId)
          /\ audit' = LogAudit("LISTING_CANCELLED", req[r].punkId, "SUCCESS")
          /\ Respond(r, 200, "Listing cancelled and punk returned")
     ELSE /\ RefundCatch(r)
          /\ UNCHANGED walletVars
  /\ UNCHANGED <<punks, history, sales, clock>>
  /\ UNCHANGED otherVars

\* ======================================================================
\* Properties
\* ======================================================================

\* An execute handler that has called wallet.sendBitcoin at least once.
SendIssued(r) ==
  req[r].kind = "execute" /\ req[r].pc \in {"ex_pay_send", "ex_dep_balance", "ex_dep_send"}

\* C1: of the execute requests on one punkId that overlap in time, all but
\* one fail with 400 before they issue a wallet send; so no two of them are
\* ever both past their first sendBitcoin call.
C1_OneExecutePerPunk ==
  \A r1, r2 \in Slots :
    (r1 # r2 /\ SendIssued(r1) /\ SendIssued(r2))
      => req[r1].punkId # req[r2].punkId

\* C2: mutating operations on one punkId are serialised; a second one that
\* arrives while the first is suspended is rejected, so no two handlers are
\* ever suspended on the same punkId.
C2_PerPunkSerialised ==
  \A r1, r2 \in Slots :
    (r1 # r2 /\ req[r1].pc # "idle" /\ req[r2].pc # "idle")
      => req[r1].punkId # req[r2].punkId

\* C3: when execute answers 200 for punk P and buyer B, then in that state
\* owner(P) = B, the listing is sold with a non-null payment_txid, and the
\* history has a (seller -> B) row for P.
C3_ExecuteSuccessState ==
  [][ \A r \in Slots, p \in Punks, b \in Addrs, s \in Addrs :
        ( /\ req[r].kind = "execute" /\ req[r].punkId = p /\ req[r].addr = b
          /\ req[r].listing.seller_address = s
          /\ last'.id = req[r].id /\ last'.code = 200 )
          => /\ OwnerOf(p)' = b
             /\ GetListing(p)'.status = "sold"
             /\ Truthy(GetListing(p)'.payment_txid)
             /\ \E i \in DOMAIN history' :
                  history'[i] = [punk_id |-> p, from_address |-> s,
                                 to_address |-> b] ]_vars

\* C4: when the payment send fails in execute, the request ends with
\* owner(P) = buyer, the listing sold, payment_txid starting with
\* PAYMENT_FAILED, a PAYMENT_FAILED audit row with status FAILED, and a 500
\* answer.
C4_PaymentFailureState ==
  [][ \A r \in Slots, p \in Punks, b \in Addrs :
        ( /\ req[r].pc \in {"ex_pay_balance", "ex_pay_send"}
          /\ req[r].punkId = p /\ req[r].addr = b
          /\ last'.id = req[r].id )
          => /\ last'.code = 500
             /\ OwnerOf(p)' = b
             /\ GetListing(p)'.status = "sold"
             /\ StartsWithPaymentFailed(GetListing(p)'.payment_txid)
             /\ Len(audit') = Len(audit) + 1
             /\ audit'[Len(audit')] = [action |-> "PAYMENT_FAILED",
                                       punk_id |-> p, status |-> "FAILED"] ]_vars

\* C5: the commit of execute writes owner, history row and the listing's
\* buyer fields in one transaction: whenever the (seller -> buyer) commit of
\* an execute in progress is in the registry, the listing carries that buyer.
C5_CommitWritesListing ==
  \A r \in Slots :
    (req[r].kind = "execute" /\ req[r].pc # "idle")
      => GetListing(req[r].punkId).buyer_address = req[r].addr

Forward ==
  {<<"pending", "pending">>, <<"pending", "deposited">>, <<"pending", "cancelled">>,
   <<"deposited", "deposited">>, <<"deposited", "sold">>, <<"deposited", "cancelled">>,
   <<"sold", "sold">>, <<"cancelled", "cancelled">>}

\* C9: the status of a listing only moves forward along
\* pending -> deposited -> (sold | cancelled); a sold or cancelled listing
\* never changes status again.
C9_MonotonicStatus ==
  [][ \A l \in listings, l2 \in listings' :
        (l2.punk_id = l.punk_id /\ l2.created_at = l.created_at)
          => <<l.status, l2.status>> \in Forward ]_vars

ActiveListings(p) ==
  {l \in listings : l.punk_id = p /\ l.status \in {"pending", "deposited"}}

\* C10: there is never more than one pending or deposited listing per
\* punkId, and a list request for a punkId that has one answers 400 and
\* leaves the listings table unchanged.
C10_OneActiveListing ==
  /\ [](\A p \in Punks : Cardinality(ActiveListings(p)) <= 1)
  /\ [][ \A p \in Punks :
           ( /\ last'.id # last.id /\ last'.kind = "list" /\ last'.punkId = p
             /\ ActiveListings(p) # {} )
             => last'.code = 400 /\ listings' = listings ]_vars

C10_Witness ==
  /\ last.kind = "list" /\ last.code = 400
  /\ ActiveListings(last.punkId) # {}

\* C11: whenever a listing is sold, the punks row of its punk_id has the
\* listing's buyer_address as owner and payment_txid is recorded (owner, txid
\* and the terminal status written together).
C11_SoldOwnerIsBuyer ==
  \A l \in listings :
    l.status = "sold"
      => /\ OwnerOf(l.punk_id) = l.buyer_address
         /\ Truthy(l.payment_txid)

\* The step in which POST /api/escrow/execute {p, b} arrives: it answers at
\* once or suspends at its first await.
ExecuteArrives(p, b) ==
  /\ clock' = clock + 1
  /\ \/ /\ last'.id = clock + 1 /\ last'.kind = "execute"
        /\ last'.punkId = p /\ last'.addr = b
     \/ \E s \in Slots :
          /\ req'[s].id = clock + 1 /\ req'[s].kind = "execute"
          /\ req'[s].punkId = p /\ req'[s].addr = b

\* The step in which POST /api/escrow/cancel {p, a} arrives.
CancelArrives(p, a) ==
  /\ clock' = clock + 1
  /\ \/ /\ last'.id = clock + 1 /\ last'.kind = "cancel"
        /\ last'.punkId = p /\ last'.addr = a
     \/ \E s \in Slots :
          /\ req'[s].id = clock + 1 /\ req'[s].kind = "cancel"
          /\ req'[s].punkId = p /\ req'[s].addr = a

\* C12: once the payment send of an execute has failed (the listing row
\* carries the PAYMENT_FAILED sentinel), an execute arriving for that punkId
\* is answered 400 at once: no ownership change, no history row, no wallet
\* send, no handler left suspended.
C12_RetryAfterFailedPayment ==
  [][ \A p \in Punks, b \in Addrs :
        ( /\ StartsWithPaymentFailed(GetListing(p).payment_txid)
          /\ ExecuteArrives(p, b) )
          => /\ last'.id = clock + 1 /\ last'.code = 400
             /\ req' = req
             /\ punks' = punks /\ history' = history
             /\ listings' = listings
             /\ sent' = sent /\ balance' = balance ]_vars

C12_Witness ==
  /\ last.kind = "execute" /\ last.code = 400
  /\ StartsWithPaymentFailed(GetListing(last.punkId).payment_txid)
  /\ \E i \in DOMAIN audit :
       audit[i] = [action |-> "PAYMENT_FAILED", punk_id |-> last.punkId,
                   status |-> "FAILED"]

\* An earlier cancel or execute of the current listing row of p has completed:
\* the row is terminal, or carries a payment_txid, or a refund was sent for it
\* by a request that arrived after the row was created.
Completed(p) ==
  LET l == GetListing(p)
  IN /\ l # NoRow
     /\ \/ l.status \in {"sold", "cancelled"}
        \/ Truthy(l.payment_txid)
        \/ \E k \in DOMAIN sent :
             /\ sent[k].what = "refund" /\ sent[k].punk_id = p
             /\ sent[k].id > l.created_at

\* C13: a cancel or execute re-issued for a punkId whose earlier cancel or
\* execute has completed is answered at once (so it starts no wallet send)
\* and changes neither the owner nor the listing's status.
C13_RetryIdempotent ==
  [][ \A p \in Punks, a \in Addrs :
        ( /\ Completed(p)
          /\ (ExecuteArrives(p, a) \/ CancelArrives(p, a)) )
          => /\ req' = req
             /\ sent' = sent
             /\ punks' = punks
             /\ GetListing(p)'.status = GetListing(p).status ]_vars

\* C14: an update-outpoint whose outpoint holds no VTXO of exactly
\* DEPOSIT_AMOUNT (for example one of 9000) answers 400, leaves the listings
\* unchanged and appends one DEPOSIT_CONFIRMED audit row with status FAILED.
C14_DepositUnverified ==
  [][ \A r \in Slots, p \in Punks :
        ( /\ req[r].pc = "uo_verify" /\ req[r].punkId = p
          /\ last'.id = req[r].id
          /\ ~\E x \in vtxos : OutpointOf(x) = req[r].outpoint /\ x.value = DEPOSIT_AMOUNT )
          => /\ last'.code = 400
             /\ listings' = listings
             /\ audit' = Append(audit, [action |-> "DEPOSIT_CONFIRMED",
                                        punk_id |-> p, status |-> "FAILED"]) ]_vars

C14_Witness ==
  /\ last.kind = "update-outpoint" /\ last.code = 400
  /\ last.body = "Deposit verification failed"
  /\ \E x \in vtxos : x.value = 9000
  /\ GetListing(last.punkId).status = "pending"
  /\ Len(audit) > 0
  /\ audit[Len(audit)] = [action |-> "DEPOSIT_CONFIRMED",
                          punk_id |-> last.punkId, status |-> "FAILED"]

\* C15: a cancel by the seller of a pending listing answers 200 in the step
\* it arrives, sets the status to cancelled and issues no wallet send (no
\* handler is suspended for a refund, the wallet is untouched).
C15_CancelPendingNoRefund ==
  [][ \A p \in Punks, a \in Addrs :
        ( /\ GetListing(p).status = "pending"
          /\ GetListing(p).seller_address = a
          /\ CancelArrives(p, a) )
          => /\ last'.id = clock + 1 /\ last'.code = 200
             /\ GetListing(p)'.status = "cancelled"
             /\ req' = req
             /\ sent' = sent /\ balance' = balance ]_vars

C15_Witness ==
  /\ last.kind = "cancel" /\ last.code = 200
  /\ GetListing(last.punkId).status = "cancelled"
  /\ GetListing(last.punkId).seller_address = last.addr
  /\ sent = <<>>
  /\ Len(audit) > 0
  /\ audit[Len(audit)].action = "LISTING_CANCELLED"
  /\ \A i \in DOMAIN audit :
       audit[i].action \in {"LIST_CREATED", "LISTING_CANCELLED"}
  /\ Cardinality({i \in DOMAIN audit : audit[i].action = "LISTING_CANCELLED"}) = 1

\* A handler whose wallet.sendBitcoin call is in flight.
SendInFlight(r) == req[r].pc \in {"ex_pay_send", "ex_dep_send", "ca_send"}

\* C16: escrow sends are serialised across all requests: at most one
\* sendBitcoin call is in flight at any time.
C16_OneSendInFlight ==
  Cardinality({r \in Slots : SendInFlight(r)}) <= 1

\* C17: every mutating request that fails (answers other than 200) writes
\* exactly one audit row, with status FAILED.
C17_FailureAudited ==
  [][ (last'.id # last.id /\ last'.code # 200)
        => /\ Len(audit') = Len(audit) + 1
           /\ audit'[Len(audit')].status = "FAILED" ]_vars

\* C18: the punks table never holds more than MAX_TOTAL_PUNKS rows (a
\* registration of a new punkId at the cap is rejected and inserts nothing).
C18_SupplyCap ==
  Cardinality(punks) <= MAX_TOTAL_PUNKS

\* C19: a register of a known punkId from an address that is neither its
\* owner nor covered by the request's bitcoinAddress reports a conflict and
\* leaves the punks table and the history unchanged.
C19_ConflictNoOverwrite ==
  [][ \A addr \in Addrs, btc \in Addrs \cup {NULL}, p \in Punks :
        ( /\ PunkExists(p) /\ OwnerOf(p) # addr /\ OwnerOf(p) # btc
          /\ Register(addr, btc, p) )
          => /\ last'.body = "conflict_detected"
             /\ punks' = punks
             /\ history' = history ]_vars

C19_Witness ==
  /\ last.kind = "register" /\ last.body = "conflict_detected"
  /\ PunkExists(last.punkId)
  /\ OwnerOf(last.punkId) # last.addr

\* C20: a register of an unknown punkId inserts exactly one punks row, owned
\* by the registering address, and appends the history row (NULL -> address);
\* a register of a known punkId inserts no row; the table never holds two
\* rows for one punkId.
C20_RegisterInsertsOnce ==
  /\ [](\A k1, k2 \in punks : k1.punk_id = k2.punk_id => k1 = k2)
  /\ [][ \A addr \in Addrs, btc \in Addrs \cup {NULL}, p \in Punks :
           Register(addr, btc, p)
             => IF PunkExists(p)
                THEN /\ Cardinality(punks') = Cardinality(punks)
                     /\ {k.punk_id : k \in punks'} = {k.punk_id : k \in punks}
                ELSE /\ punks' = punks \cup {[punk_id |-> p, owner_address |-> addr]}
                     /\ Cardinality(punks') = Cardinality(punks) + 1
                     /\ history' = Append(history,
                          [punk_id |-> p, from_address |-> NULL,
                           to_address |-> addr]) ]_vars

C20_Witness ==
  /\ last.kind = "register" /\ last.body = "registered"
  /\ [punk_id |-> last.punkId, owner_address |-> last.addr] \in punks
  /\ Cardinality({k \in punks : k.punk_id = last.punkId}) = 1
  /\ \E i \in DOMAIN history :
       history[i] = [punk_id |-> last.punkId, from_address |-> NULL,
                     to_address |-> last.addr]

\* C21: a register of a known punkId by its current owner reports
\* "refreshed", appends no history row and leaves the owner as it is.
C21_RefreshNoHistory ==
  [][ \A addr \in Addrs, btc \in Addrs \cup {NULL}, p \in Punks :
        ( /\ PunkExists(p) /\ OwnerOf(p) = addr
          /\ Register(addr, btc, p) )
          => /\ last'.body = "refreshed"
             /\ history' = history
             /\ OwnerOf(p)' = addr
             /\ Cardinality(punks') = Cardinality(punks) ]_vars

C21_Witness ==
  /\ last.kind = "register" /\ last.body = "refreshed"
  /\ OwnerOf(last.punkId) = last.addr
  /\ Cardinality({i \in DOMAIN history : history[i].punk_id = last.punkId}) = 1

\* C22: every change of a punk's owner (first registration, migration,
\* execute) appends in the same step one history row for that punk whose
\* to_address is the new owner, with from_address NULL for a first
\* registration.
C22_OwnerChangeHasHistory ==
  [][ \A p \in Punks :
        OwnerOf(p)' # OwnerOf(p)
          => /\ Len(history') = Len(history) + 1
             /\ history'[Len(history')].punk_id = p
             /\ history'[Len(history')].to_address = OwnerOf(p)'
             /\ (~PunkExists(p) => history'[Len(history')].from_address = NULL) ]_vars

C22_Witness ==
  \E p \in Punks :
    /\ Len(history) >= 3
    /\ history[1] = [punk_id |-> p, from_address |-> NULL, to_address |-> "A"]
    /\ history[Len(history)].to_address = OwnerOf(p)
    /\ history[Len(history)].from_address = "B"
    /\ OwnerOf(p) = "A"
    /\ last.kind = "execute" /\ last.code = 200

\* C23: all writes of one request are made in one transaction: an execute
\* that has committed its ownership write and suspended writes nothing
\* further to the listings and sales tables when it resumes.
C23_SingleTransaction ==
  [][ \A r \in Slots :
        ( /\ req[r].kind = "execute" /\ req[r].pc # "idle"
          /\ last'.id = req[r].id )
          => /\ listings' = listings
             /\ sales' = sales ]_vars

\* C24: a cancel whose sellerAddress is not the listing's seller_address is
\* answered 403 in the step it arrives; the listings are unchanged, no
\* handler is suspended for a refund and the wallet is untouched.
C24_CancelForbidden ==
  [][ \A p \in Punks, a \in Addrs :
        ( /\ GetListing(p) # NoRow
          /\ GetListing(p).seller_address # a
          /\ CancelArrives(p, a) )
          => /\ last'.id = clock + 1 /\ last'.code = 403
             /\ listings' = listings
             /\ req' = req
             /\ sent' = sent /\ balance' = balance ]_vars

C24_Witness ==
  /\ last.kind = "cancel" /\ last.code = 403
  /\ GetListing(last.punkId).status = "deposited"
  /\ GetListing(last.punkId).seller_address # last.addr
  /\ sent = <<>>

\* C30: execute changes the owner only if, at the request's arrival, the
\* listing is deposited, payment_txid is not set and the escrow balance is at
\* least price_sats; otherwise it fails and leaves owner and history as they
\* are.
C30_ExecutePreconditions ==
  [][ \A p \in Punks, b \in Addrs :
        ( /\ ExecuteArrives(p, b)
          /\ ~( /\ GetListing(p).status = "deposited"
                /\ ~Truthy(GetListing(p).payment_txid)
                /\ balance >= GetListing(p).price_sats ) )
          => /\ punks' = punks
             /\ history' = history
             /\ last'.id = clock + 1 /\ last'.code # 200 ]_vars

\* A step in which the cancel handler of slot r sends its refund.
RefundSent(r) ==
  /\ req[r].kind = "cancel"
  /\ req[r].pc = "ca_send"
  /\ Len(sent') = Len(sent) + 1
  /\ sent'[Len(sent')].what = "refund"
  /\ sent'[Len(sent')].id = req[r].id

\* C33: a cancel and an execute never both take effect on one deposited
\* listing: when cancel sends the reserve refund, the listing it read (the
\* row created at the same time) has not had its punk transferred by an
\* execute, finished or still running.
C33_CancelXorExecute ==
  [][ \A r \in Slots :
        RefundSent(r) =>
          /\ ~\E e \in Slots :
                /\ req[e].kind = "execute"
                /\ req[e].pc # "idle"
                /\ req[e].punkId = req[r].punkId
                /\ req[e].listing.created_at = req[r].listing.created_at
          /\ ~( /\ GetListing(req[r].punkId).created_at = req[r].listing.created_at
                /\ GetListing(req[r].punkId).status = "sold" ) ]_vars

\* C34: the reserve of one deposited listing is refunded at most once: when
\* a cancel sends the refund, the listing it read has not already been
\* cancelled with a refund by another cancel request.
C34_OneRefund ==
  [][ \A r \in Slots :
        RefundSent(r) =>
          ~( /\ GetListing(req[r].punkId).created_at = req[r].listing.created_at
             /\ GetListing(req[r].punkId).status = "cancelled" ) ]_vars

\* The sats sent out of escrow for punk p by requests that arrived after
\* time c, from the k-th send on.
RECURSIVE SentSince(_, _, _)
SentSince(p, c, k) ==
  IF k > Len(sent) THEN 0
  ELSE (IF sent[k].punk_id = p /\ sent[k].id > c THEN sent[k].amount ELSE 0)
       + SentSince(p, c, k + 1)

\* The punk of listing l has been sold: the row says so, or the execute that
\* transferred it is still running.
SoldOrSelling(l) ==
  \/ l.status = "sold"
  \/ \E r \in Slots :
       /\ req[r].kind = "execute" /\ req[r].pc # "idle"
       /\ req[r].punkId = l.punk_id
       /\ req[r].listing.created_at = l.created_at

\* C36: what the escrow wallet has sent on behalf of one listing (sale
\* payment, reserve return, cancel refund) never exceeds what was paid into
\* escrow for it: the 10 000-sat reserve plus, if it is sold, the price.
C36_OutAtMostIn ==
  \A l \in listings :
    SentSince(l.punk_id, l.created_at, 1)
      <= DEPOSIT_AMOUNT + (IF SoldOrSelling(l) THEN l.price_sats ELSE 0)

\* C38: every ownership-history row written by execute has as from-address
\* the punk's registered owner immediately before the change: the seller of
\* an executed listing is the punk's registry owner at that time.
C38_FromIsOwner ==
  [][ \A p \in Punks, b \in Addrs :
        ( /\ ExecuteArrives(p, b)
          /\ Len(history') = Len(history) + 1 )
          => history'[Len(history')].from_address = OwnerOf(p) ]_vars

Next ==
  \/ \E o \in Outpoints, v \in VtxoValues : DepositVtxo(o, v)
  \/ \E a \in Prices : BuyerPays(a)
  \/ \E addr \in Addrs, btc \in Addrs \cup {NULL}, p \in Punks : Register(addr, btc, p)
  \/ \E p \in Punks, seller \in Addrs, price \in Prices : List(p, seller, price)
  \/ \E p \in Punks, o \in Outpoints : UpdateOutpointStart(p, o)
  \/ \E r \in Slots, walletOk \in BOOLEAN : UpdateOutpointVerified(r, walletOk)
  \/ \E p \in Punks, buyer \in Addrs : ExecuteStart(p, buyer)
  \/ \E r \in Slots : ExecutePayBalance(r)
  \/ \E r \in Slots, ok \in BOOLEAN : ExecutePaySend(r, ok)
  \/ \E r \in Slots : ExecuteDepBalance(r)
  \/ \E r \in Slots, ok \in BOOLEAN : ExecuteDepSend(r, ok)
  \/ \E p \in Punks, sellerAddress \in Addrs : CancelStart(p, sellerAddress)
  \/ \E r \in Slots : CancelBalance(r)
  \/ \E r \in Slots, ok \in BOOLEAN : CancelSend(r, ok)

Spec == Init /\ [][Next]_vars

\* ------------------------------------------------------- registry at the cap
\* punkIds of the supply specification are numbered: 1 .. MAX_TOTAL_PUNKS - 1
\* are registered, the next ones are not.
SupplyPunks == (MAX_TOTAL_PUNKS - 1) .. (MAX_TOTAL_PUNKS + 1)

\* The registry after address A has registered MAX_TOTAL_PUNKS - 1 punks;
\* clock counts the requests from there on.
InitSupply ==
  /\ punks = {[punk_id |-> i, owner_address |-> "A"] : i \in 1 .. (MAX_TOTAL_PUNKS - 1)}
  /\ history = [i \in 1 .. (MAX_TOTAL_PUNKS - 1) |->
                 [punk_id |-> i, from_address |-> NULL, to_address |-> "A"]]
  /\ listings = {}
  /\ sales = <<>>
  /\ audit = <<>>
  /\ balance = 0
  /\ vtxos = {}
  /\ paidIn = 0
  /\ sent = <<>>
  /\ req = [s \in Slots |-> IdleReq]
  /\ clock = 0
  /\ last = NoResponse
  /\ InitOther

NextSupply ==
  \E addr \in Addrs, btc \in Addrs \cup {NULL}, p \in SupplyPunks :
    clock < MaxMints /\ Register(addr, btc, p)

SpecSupply == InitSupply /\ [][NextSupply]_vars

\* ------------------------------------------- POST /api/punks/claim-reserve
\* The reserve-claim function: a stateless handler that pays the difference
\* between punkCount * PUNK_RESERVE and the currentBalance the request
\* declares, from the escrow wallet.
PUNK_RESERVE == 10000
MIN_CLAIM == 1000

\* Number of claim-reserve requests accepted in one behaviour.
MaxClaims == 2

\* Request bodies; NULL is a field the body does not have.
PunkCounts == {1, 2, 101}
CurrentBalances == {NULL, "0", "9500", "10000"}
EscrowFunds == {5000, 30000}

InitReserve ==
  /\ punks = {}
  /\ history = <<>>
  /\ listings = {}
  /\ sales = <<>>
  /\ audit = <<>>
  /\ balance \in EscrowFunds
  /\ vtxos = {}
  /\ paidIn = 0
  /\ sent = <<>>
  /\ req = [s \in Slots |-> IdleReq]
  /\ clock = 0
  /\ last = NoResponse
  /\ InitOther

\* BigInt(str) for the decimal strings of CurrentBalances and of the listing
\* prices.
BigInt(str) ==
  CASE str = "0" -> 0
    [] str = "9500" -> 9500
    [] str = "10000" -> 10000
    [] str = "1" -> 1
    [] str = "99" -> 99
    [] str = "150" -> 150
    [] str = "5000" -> 5000

ClaimFreeSlot ==
  CHOOSE s \in Slots :
    claimReq[s].pc = "idle" /\ \A t \in Slots : claimReq[t].pc = "idle" => s <= t

\* res.status(code).json(...) of the suspended claim handler in slot r.
ClaimRespond(r, code, body) ==
  /\ last' = Response(claimReq[r].id, "claim-reserve", NULL,
                      claimReq[r].userAddress, code, body)
  /\ claimReq' = [claimReq EXCEPT ![r] = IdleClaim]

\* From the arrival of the request to `await getEscrowWallet()`.
ClaimReserveStart(userAddress, punkCount, currentBalance) ==
  /\ clock < MaxClaims
  /\ clock' = clock + 1
  /\ IF ~Truthy(userAddress) \/ ~Truthy(currentBalance)
     THEN /\ last' = Response(clock + 1, "claim-reserve", NULL, userAddress, 400,
                              "Missing required fields")
          /\ claimReq' = claimReq
     ELSE IF punkCount < 0 \/ punkCount > 100
     THEN /\ last' = Response(clock + 1, "claim-reserve", NULL, userAddress, 400,
                              "Invalid punk count")
          /\ claimReq' = claimReq
     ELSE LET deficit == punkCount * PUNK_RESERVE - BigInt(currentBalance)
          IN IF deficit <= 0
             THEN /\ last' = Response(clock + 1, "claim-reserve", NULL, userAddress,
                                      200, "claimed: false, sufficient reserve")
                  /\ claimReq' = claimReq
             ELSE IF deficit < MIN_CLAIM
             THEN /\ last' = Response(clock + 1, "claim-reserve", NULL, userAddress,
                                      200, "claimed: false, not worth claiming")
                  /\ claimReq' = claimReq
             ELSE /\ \E s \in Slots : claimReq[s].pc = "idle"
                  /\ claimReq' = [claimReq EXCEPT ![ClaimFreeSlot] =
                       [pc |-> "cr_balance", id |-> clock + 1,
                        userAddress |-> userAddress, punkCount |-> punkCount,
                        currentBalance |-> currentBalance, deficit |-> deficit]]
                  /\ last' = last
  /\ UNCHANGED <<dbVars, walletVars, req, payouts, metadata, compressed,
                 reconstructed, calls,
                 toolVars>>

\* getEscrowWallet() and getBalance() resolve (or throw): the balance check,
\* then the call of escrowWallet.send.
ClaimReserveBalance(r, walletOk) ==
  /\ claimReq[r].pc = "cr_balance"
  /\ IF ~walletOk
     THEN ClaimRespond(r, 500, "Failed to process reserve claim")
     ELSE IF balance < claimReq[r].deficit
     THEN ClaimRespond(r, 503, "Escrow wallet has insufficient funds")
     ELSE /\ claimReq' = [claimReq EXCEPT ![r].pc = "cr_send"]
          /\ last' = last
  /\ UNCHANGED <<dbVars, walletVars, req, clock, payouts, metadata, compressed,
                 reconstructed, calls,
                 toolVars>>

\* escrowWallet.send(userAddress, deficit) resolves with a txid (ok) or
\* rejects.
ClaimReserveSend(r, ok) ==
  /\ claimReq[r].pc = "cr_send"
  /\ IF ok
     THEN /\ balance >= claimReq[r].deficit
          /\ balance' = balance - claimReq[r].deficit
          /\ payouts' = Append(payouts,
               [to |-> claimReq[r].userAddress, amount |-> claimReq[r].deficit,
                id |-> claimReq[r].id, punkCount |-> claimReq[r].punkCount,
                currentBalance |-> claimReq[r].currentBalance, at |-> clock])
          /\ ClaimRespond(r, 200, "claimed: true")
     ELSE /\ UNCHANGED <<balance, payouts>>
          /\ ClaimRespond(r, 500, "Failed to process reserve claim")
  /\ UNCHANGED <<dbVars, vtxos, paidIn, sent, req, clock, metadata, compressed,
                 reconstructed, calls,
                 toolVars>>

\* C25: the reserve claim is idempotent: a claim that repeats one already
\* paid out (same userAddress, punkCount and currentBalance, arrived after
\* that payout) is paid nothing.
C25_ClaimIdempotent ==
  \A i, j \in DOMAIN payouts :
    ~( /\ i < j
       /\ payouts[j].to = payouts[i].to
       /\ payouts[j].punkCount = payouts[i].punkCount
       /\ payouts[j].currentBalance = payouts[i].currentBalance
       /\ payouts[j].id > payouts[i].at )

NextReserve ==
  \/ \E u \in Addrs \cup {NULL}, n \in PunkCounts, cb \in CurrentBalances :
       ClaimReserveStart(u, n, cb)
  \/ \E r \in Slots, walletOk \in BOOLEAN : ClaimReserveBalance(r, walletOk)
  \/ \E r \in Slots, ok \in BOOLEAN : ClaimReserveSend(r, ok)

SpecReserve == InitReserve /\ [][NextReserve]_vars

\* ------------------------------------------------ src/utils/compression.ts
TYPE_NAMES == <<"Male", "Female", "Zombie", "Ape", "Alien">>

BACKGROUND_NAMES ==
  <<"Blue", "Green", "Orange", "Purple", "Red",
    "Yellow", "Aqua", "Gray", "Black", "Pink">>

\* ATTRIBUTES_BY_TYPE[typeIndex + 1] is the table of PunkType typeIndex.
ATTRIBUTES_BY_TYPE ==
  << <<"Mohawk", "Bandana", "Beanie", "Cap", "Hoodie",
       "Glasses", "Sunglasses", "VR Headset", "Eye Patch",
       "Cigarette", "Pipe", "Vape",
       "Moustache", "Beard", "Goatee",
       "Earring", "Gold Chain", "Choker">>,
     <<"Wild Hair", "Straight Hair", "Messy Hair", "Knitted Cap", "Headband",
       "Glasses", "Sunglasses", "Clown Eyes",
       "Hot Lipstick", "Purple Lipstick", "Black Lipstick",
       "Earring", "Choker", "Silver Chain">>,
     <<"Zombie Hair", "Zombie Bandana",
       "Zombie Glasses", "Zombie Eye",
       "Rotting Flesh", "Missing Teeth">>,
     <<"Ape Hair", "Ape Bandana",
       "Ape Glasses", "Ape Earring",
       "Banana", "Cigar">>,
     <<"Alien Headband", "Alien Cap",
       "Alien Glasses", "Alien Earring",
       "UFO", "Laser Eyes">> >>

\* JavaScript undefined (an array read outside the array).
UNDEFINED == "undefined"

\* The attribute names in the order Array.prototype.sort() gives them
\* (comparison of UTF-16 code units).
CodeUnitOrder ==
  <<"Alien Cap", "Alien Earring", "Alien Glasses", "Alien Headband",
    "Ape Bandana", "Ape Earring", "Ape Glasses", "Ape Hair", "Banana",
    "Bandana", "Beanie", "Beard", "Black Lipstick", "Cap", "Choker", "Cigar",
    "Cigarette", "Clown Eyes", "Earring", "Eye Patch", "Glasses", "Goatee",
    "Gold Chain", "Headband", "Hoodie", "Hot Lipstick", "Knitted Cap",
    "Laser Eyes", "Messy Hair", "Missing Teeth", "Mohawk", "Moustache", "Pipe",
    "Purple Lipstick", "Rotting Flesh", "Silver Chain", "Straight Hair",
    "Sunglasses", "UFO", "VR Headset", "Vape", "Wild Hair", "Zombie Bandana",
    "Zombie Eye", "Zombie Glasses", "Zombie Hair">>

\* The elements of arr equal to x, as a sequence.
Copies(arr, x) == SelectSeq(arr, LAMBDA y : y = x)

RECURSIVE SortFrom(_, _)
SortFrom(arr, k) ==
  IF k > Len(CodeUnitOrder) THEN Copies(arr, UNDEFINED)
  ELSE Copies(arr, CodeUnitOrder[k]) \o SortFrom(arr, k + 1)

\* arr.sort() of an array of attribute names: code-unit order, undefined last.
Sort(arr) == SortFrom(arr, 1)

\* Array.prototype.indexOf
IndexOf(arr, x) ==
  IF \E i \in DOMAIN arr : arr[i] = x
  THEN (CHOOSE i \in DOMAIN arr : arr[i] = x /\ \A j \in DOMAIN arr : arr[j] = x => i <= j) - 1
  ELSE -1

RECURSIVE Pow2(_)
Pow2(n) == IF n = 0 THEN 1 ELSE 2 * Pow2(n - 1)

\* Bit i of a non-negative integer.
Bit(x, i) == (x \div Pow2(i)) % 2

\* attributeBitmap |= (1 << attrIndex), for attrIndex < 31.
OrBit(bitmap, attrIndex) ==
  IF Bit(bitmap, attrIndex) = 1 THEN bitmap ELSE bitmap + Pow2(attrIndex)

\* A PunkMetadata that was not produced.
NoMetadata == [punkId |-> <<>>, name |-> <<>>,
               traits |-> [type |-> NULL, attributes |-> <<>>, background |-> NULL]]

\* The outcome of a call that threw new Error(message).
Thrown(message) ==
  [ok |-> FALSE, error |-> message, data |-> <<>>, metadata |-> NoMetadata]

\* The result variable of a call that has not been made.
NotCalled == Thrown("not called")

\* The loop over metadata.traits.attributes from its k-th element on: the
\* bitmap, or -1 for an attribute that is not in the table.
RECURSIVE AttributeBitmap(_, _, _, _)
AttributeBitmap(attributes, availableAttributes, k, attributeBitmap) ==
  IF k > Len(attributes) THEN attributeBitmap
  ELSE LET attrIndex == IndexOf(availableAttributes, attributes[k])
       IN IF attrIndex = -1 \/ attrIndex >= 32 THEN -1
          ELSE AttributeBitmap(attributes, availableAttributes, k + 1,
                               OrBit(attributeBitmap, attrIndex))

\* compressPunkMetadata(metadata): the six bytes, or the Error thrown.
CompressPunkMetadata(m) ==
  LET typeIndex == IndexOf(TYPE_NAMES, m.traits.type)
      bgIndex == IndexOf(BACKGROUND_NAMES, m.traits.background)
  IN IF typeIndex = -1 THEN Thrown("Invalid punk type")
     ELSE IF bgIndex = -1 THEN Thrown("Invalid background")
     ELSE LET attributeBitmap ==
                AttributeBitmap(m.traits.attributes,
                                ATTRIBUTES_BY_TYPE[typeIndex + 1], 1, 0)
          IN IF attributeBitmap = -1 THEN Thrown("Invalid attribute")
             ELSE [ok |-> TRUE, error |-> NULL, metadata |-> NoMetadata,
                   data |-> << (typeIndex * 32 + bgIndex * 2) % 256,
                               attributeBitmap % 256,
                               (attributeBitmap \div 256) % 256,
                               (attributeBitmap \div 65536) % 256,
                               (attributeBitmap \div 16777216) % 256,
                               Len(m.traits.attributes) % 256 >>]

\* attributeBitmap & (1 << i) of the bitmap in data[1..4] (little-endian).
BitmapBit(data, i) == Bit(data[2 + (i \div 8)], i % 8)

\* decompressPunkMetadata(compressed, punkId): the metadata, or the Error
\* thrown.  imageUrl and description are built from type, attributes and
\* background alone and are left out.
DecompressPunkMetadata(data, punkId) ==
  IF Len(data) # 6 THEN Thrown("Invalid compressed punk data: must be 6 bytes")
  ELSE
  LET typeIndex == (data[1] \div 32) % 8
      bgIndex == (data[1] \div 2) % 16
  IN IF typeIndex >= Len(TYPE_NAMES) THEN Thrown("Invalid type index")
     ELSE IF bgIndex >= Len(BACKGROUND_NAMES) THEN Thrown("Invalid background index")
     ELSE LET availableAttributes == ATTRIBUTES_BY_TYPE[typeIndex + 1]
              expectedCount == data[6]
              attributes ==
                SelectSeq([i \in 1 .. 32 |-> i - 1],
                          LAMBDA i : BitmapBit(data, i) = 1
                                     /\ i < Len(availableAttributes))
              names == [k \in DOMAIN attributes |-> availableAttributes[attributes[k] + 1]]
          IN IF Len(names) # expectedCount THEN Thrown("Attribute count mismatch")
             ELSE [ok |-> TRUE, error |-> NULL, data |-> <<>>,
                   metadata |->
                     [punkId |-> punkId,
                      name |-> <<"Punk #">> \o SubSeq(punkId, 1, 8),
                      traits |-> [type |-> TYPE_NAMES[typeIndex + 1],
                                  attributes |-> Sort(names),
                                  background |-> BACKGROUND_NAMES[bgIndex + 1]]]]


\* ------------------------------------- src/utils/deterministicGenerator.ts
\* The seed strings generateDeterministicPunk is called with.
Seeds == {"same-seed", "test-1", "test-4", "test-6", "test-194",
          "test-28", "test-45", "test-124", "test-259", "test-354"}

\* sha256(new TextEncoder().encode(seed)): the SHA-256 digests of the seeds
\* of Seeds.
Sha256(seed) ==
  CASE
       seed = "same-seed" ->
         <<191, 139, 100, 181, 243, 238, 66, 214, 48, 36, 161, 147, 62, 254, 156, 99,
           158, 67, 102, 224, 1, 121, 255, 73, 18, 163, 224, 206, 205, 39, 192, 227>>
    [] seed = "test-1" ->
         <<237, 30, 29, 207, 151, 25, 144, 193, 184, 150, 118, 174, 120, 84, 54, 16,
           111, 117, 72, 177, 174, 65, 209, 116, 202, 157, 59, 251, 150, 97, 164, 119>>
    [] seed = "test-4" ->
         <<169, 235, 243, 173, 115, 8, 71, 143, 236, 47, 2, 64, 202, 180, 96, 91,
           205, 88, 118, 179, 54, 29, 39, 93, 95, 76, 237, 245, 119, 15, 219, 18>>
    [] seed = "test-6" ->
         <<224, 183, 20, 251, 63, 48, 114, 68, 137, 101, 122, 55, 95, 212, 145, 58,
           135, 77, 164, 246, 160, 24, 16, 204, 182, 184, 135, 67, 20, 42, 77, 115>>
    [] seed = "test-194" ->
         <<54, 120, 127, 24, 224, 126, 130, 246, 79, 176, 192, 239, 91, 152, 219, 219,
           115, 239, 172, 47, 43, 197, 228, 211, 229, 101, 214, 189, 115, 17, 186, 60>>
    [] seed = "test-28" ->
         <<17, 159, 122, 193, 16, 140, 119, 188, 179, 37, 71, 64, 77, 218, 2, 74,
           140, 35, 165, 128, 112, 178, 73, 9, 97, 144, 64, 137, 64, 107, 139, 72>>
    [] seed = "test-45" ->
         <<188, 4, 94, 219, 24, 246, 191, 0, 147, 214, 140, 170, 238, 136, 40, 175,
           48, 4, 121, 254, 244, 189, 224, 237, 97, 48, 1, 109, 236, 120, 135, 190>>
    [] seed = "test-124" ->
         <<205, 21, 228, 60, 242, 153, 107, 174, 65, 120, 62, 174, 182, 211, 70, 241,
           40, 90, 156, 232, 14, 89, 104, 52, 132, 130, 224, 12, 97, 70, 209, 70>>
    [] seed = "test-259" ->
         <<147, 100, 73, 70, 59, 233, 72, 97, 213, 17, 5, 81, 174, 248, 91, 193,
           230, 78, 80, 166, 125, 162, 26, 21, 180, 27, 155, 70, 232, 237, 76, 84>>
    [] seed = "test-354" ->
         <<52, 252, 98, 254, 93, 90, 239, 77, 152, 98, 19, 7, 170, 161, 178, 15,
           185, 233, 47, 173, 152, 41, 124, 45, 141, 40, 156, 216, 17, 167, 93, 198>>

HexDigits == <<"0", "1", "2", "3", "4", "5", "6", "7",
               "8", "9", "a", "b", "c", "d", "e", "f">>

\* hex.encode(bytes): two lower-case digits per byte, as a sequence of
\* characters.
HexEncode(bytes) ==
  [k \in 1 .. 2 * Len(bytes) |->
     LET byte == bytes[(k + 1) \div 2]
     IN IF k % 2 = 1 THEN HexDigits[(byte \div 16) + 1]
        ELSE HexDigits[(byte % 16) + 1]]

\* A JavaScript int32 from the two 16-bit halves of its two's complement.
Int32(hi, lo) ==
  IF hi >= 32768 THEN (hi - 65536) * 65536 + lo ELSE hi * 65536 + lo

Lo16(x) == x % 65536
Hi16(x) == (x \div 65536) % 65536

\* x << 5 on an int32.
ShiftLeft5(x) ==
  LET lo == Lo16(x) * 32
      hi == Hi16(x) * 32 + lo \div 65536
  IN Int32(hi % 65536, lo % 65536)

\* ((x - y) + b) & 0xFFFFFFFF for int32 x, y and a byte b: the sum is exact
\* as a double, and the & takes it modulo 2^32 as a signed int32.
SubAddInt32(x, y, b) ==
  LET lo == Lo16(x) - Lo16(y) + b
      hi == Hi16(x) - Hi16(y) + lo \div 65536
  IN Int32(hi % 65536, lo % 65536)

IsInt32(x) == x >= -2147483647 - 1 /\ x <= 2147483647

\* The constructor's loop from seed[i] on.  this.state is an int32 after
\* every iteration, which is evaluated before the next one starts.
RECURSIVE SeedFold(_, _, _)
SeedFold(seed, i, state) ==
  IF i > Len(seed) THEN state
  ELSE LET mixed == SubAddInt32(ShiftLeft5(state), state, seed[i])
       IN IF IsInt32(mixed) THEN SeedFold(seed, i + 1, mixed) ELSE mixed

\* Variant: the rng state also depends on the number of calls made before.
SeededRandom_CountsCalls(seed) ==
  LET state == SeedFold(seed, 1, Len(calls))
  IN IF state = 0 THEN 1 ELSE state

\* new SeededRandom(seed): the initial state.
SeededRandom(seed) ==
  LET state == SeedFold(seed, 1, 0)
  IN IF state = 0 THEN 1 ELSE state

\* Non-negative integers beyond 32 bits are sequences of 14-bit limbs, least
\* significant first.
LIMB == 16384

RECURSIVE Carry(_, _, _)
Carry(limbs, k, carry) ==
  IF k > Len(limbs) THEN <<>>
  ELSE LET v == limbs[k] + carry
       IN <<v % LIMB>> \o Carry(limbs, k + 1, v \div LIMB)

\* Propagates carries and borrows so that every limb is in 0 .. LIMB - 1.
Normalize(limbs) == Carry(limbs, 1, 0)

\* |x| of an int32 as limbs.
Magnitude(x) ==
  IF x = -2147483647 - 1 THEN <<0, 0, 8, 0, 0>>
  ELSE LET a == IF x < 0 THEN -x ELSE x
       IN <<a % LIMB, (a \div LIMB) % LIMB, a \div (LIMB * LIMB), 0, 0>>

\* 1103515245 = 4 * 2^28 + 1817 * 2^14 + 3693
MULTIPLIER == <<3693, 1817, 4>>
INCREMENT == 12345

\* The exact product a * 1103515245.
Times(a) ==
  LET m == MULTIPLIER
  IN Normalize(<<a[1] * m[1],
                 a[1] * m[2] + a[2] * m[1],
                 a[1] * m[3] + a[2] * m[2] + a[3] * m[1],
                 a[2] * m[3] + a[3] * m[2],
                 a[3] * m[3]>>)

RECURSIVE BitLength14(_)
BitLength14(v) == IF v = 0 THEN 0 ELSE 1 + BitLength14(v \div 2)

RECURSIVE BitLengthFrom(_, _)
BitLengthFrom(limbs, k) ==
  IF k = 0 THEN 0
  ELSE IF limbs[k] # 0 THEN 14 * (k - 1) + BitLength14(limbs[k])
  ELSE BitLengthFrom(limbs, k - 1)

BitLength(limbs) == BitLengthFrom(limbs, Len(limbs))

\* The IEEE-754 double nearest to a non-negative integer below 2^70: 53
\* significant bits, ties to even.
RoundToDouble(limbs) ==
  LET drop == BitLength(limbs) - 53
  IN IF drop <= 0 THEN limbs
     ELSE LET unit == Pow2(drop)
              low == limbs[1] % unit
              odd == Bit(limbs[1], drop) = 1
              up == (2 * low > unit) \/ (2 * low = unit /\ odd)
          IN Normalize([limbs EXCEPT ![1] = limbs[1] - low + (IF up THEN unit ELSE 0)])

\* A double of integer value & 0xFFFFFFFF: the value modulo 2^32 as int32.
ToInt32(negative, limbs) ==
  LET top == limbs[3] % 16
      low == limbs[2] * LIMB + limbs[1]
      x == IF top >= 8 THEN (top - 16) * 268435456 + low ELSE top * 268435456 + low
  IN IF ~negative \/ x = -2147483647 - 1 THEN x ELSE -x

\* next(): this.state = (this.state * 1103515245 + 12345) & 0xFFFFFFFF, the
\* product and the sum each rounded to a double.
RngNext(state) ==
  LET product == RoundToDouble(Times(Magnitude(state)))
  IN IF state >= 0
     THEN ToInt32(FALSE, RoundToDouble(
            Normalize([product EXCEPT ![1] = product[1] + INCREMENT])))
     ELSE ToInt32(TRUE, RoundToDouble(
            Normalize([product EXCEPT ![1] = product[1] - INCREMENT])))

\* state / 0xFFFFFFFF < hundredths / 100, for the value next() returns.
RollBelow(state, hundredths) ==
  LET t == 100 * Lo16(state) + hundredths
  IN 100 * (state \div 65536) + t \div 65536 < hundredths * 65536

\* Math.floor((state / 0xFFFFFFFF) * max), for the value next() returns.
FloorTimes(state, max) ==
  LET w == max * Lo16(state)
      mid == max * (state \div 65536) + w \div 65536
      q == mid \div 65536
      remHi == mid % 65536
      remLo == w % 65536
  IN IF remHi = 0 /\ remLo + q < 0 THEN q - 1
     ELSE IF remHi = 65535 /\ remLo + q >= 65535 THEN q + 1
     ELSE q

\* arr[i] of a JavaScript array (0-based).
At(arr, i) == IF i >= 0 /\ i < Len(arr) THEN arr[i + 1] ELSE UNDEFINED

\* do { attrIndex = rng.nextInt(length); attempts++ }
\* while (usedIndices.has(attrIndex) && attempts < 100)
RECURSIVE DrawIndex(_, _, _, _)
DrawIndex(state, usedIndices, attempts, length) ==
  LET drawn == RngNext(state)
      attrIndex == FloorTimes(drawn, length)
  IN IF attrIndex \in usedIndices /\ attempts + 1 < 100
     THEN DrawIndex(drawn, usedIndices, attempts + 1, length)
     ELSE [state |-> drawn, attrIndex |-> attrIndex]

\* The for loop from its i-th iteration on: selectedAttributes at its end.
RECURSIVE SelectAttributes(_, _, _, _, _, _)
SelectAttributes(state, i, numAttributes, availableAttributes, usedIndices, selectedAttributes) ==
  IF ~(i < numAttributes /\ i < Len(availableAttributes)) THEN selectedAttributes
  ELSE LET d == DrawIndex(state, usedIndices, 0, Len(availableAttributes))
       IN IF d.attrIndex \in usedIndices
          THEN SelectAttributes(d.state, i + 1, numAttributes, availableAttributes,
                                usedIndices, selectedAttributes)
          ELSE SelectAttributes(d.state, i + 1, numAttributes, availableAttributes,
                                usedIndices \cup {d.attrIndex},
                                Append(selectedAttributes,
                                       At(availableAttributes, d.attrIndex)))

\* The generator with the state its rng starts from.  imageUrl is '' and
\* description is built from typeName, the attributes and background alone;
\* both are left out.
GenerateFrom(seedBytes, state) ==
  LET typeRoll == RngNext(state)
      type == IF RollBelow(typeRoll, 1) THEN 4
              ELSE IF RollBelow(typeRoll, 3) THEN 3
              ELSE IF RollBelow(typeRoll, 6) THEN 2
              ELSE IF RollBelow(typeRoll, 53) THEN 0
              ELSE 1
      bgState == RngNext(typeRoll)
      background == At(BACKGROUND_NAMES, FloorTimes(bgState, Len(BACKGROUND_NAMES)))
      availableAttributes == ATTRIBUTES_BY_TYPE[type + 1]
      numState == RngNext(bgState)
      numAttributes == FloorTimes(numState, 4) + 2
      selectedAttributes ==
        SelectAttributes(numState, 0, numAttributes, availableAttributes, {}, <<>>)
      punkId == HexEncode(seedBytes)
      meta == [punkId |-> punkId,
               name |-> <<"Punk #">> \o SubSeq(punkId, 1, 8),
               traits |-> [type |-> TYPE_NAMES[type + 1],
                           attributes |-> Sort(selectedAttributes),
                           background |-> background]]
      result == CompressPunkMetadata(meta)
  IN IF result.ok THEN [result EXCEPT !.metadata = meta] ELSE result

\* generateDeterministicPunk(seed): {metadata, compressed}, or the Error
\* thrown by compressPunkMetadata.
GenerateDeterministicPunk(seed) ==
  LET seedBytes == Sha256(seed)
  IN GenerateFrom(seedBytes, SeededRandom(seedBytes))

\* ------------------------------------------------- the codec, run on inputs
\* Longest attribute list of a metadata handed to compressPunkMetadata.
MaxAttributes == 2

\* Trait values of the inputs; "Robot" and "White" are in no table.
CodecTypes == {"Male", "Female", "Alien", "Robot"}
CodecBackgrounds == {"Blue", "Pink", "White"}
CodecAttributes == {"Mohawk", "Bandana", "Choker", "UFO"}
PunkIds == {HexEncode(Sha256("test-6")), HexEncode(Sha256("test-194"))}

AttributeLists == UNION {[1 .. n -> CodecAttributes] : n \in 0 .. MaxAttributes}

MetadataInputs ==
  {[punkId |-> id, name |-> <<"Punk #">> \o SubSeq(id, 1, 8),
    traits |-> [type |-> t, attributes |-> a, background |-> b]] :
     id \in PunkIds, t \in CodecTypes, a \in AttributeLists, b \in CodecBackgrounds}

InitCodec ==
  /\ punks = {}
  /\ history = <<>>
  /\ listings = {}
  /\ sales = <<>>
  /\ audit = <<>>
  /\ balance = 0
  /\ vtxos = {}
  /\ paidIn = 0
  /\ sent = <<>>
  /\ req = [s \in Slots |-> IdleReq]
  /\ clock = 0
  /\ last = NoResponse
  /\ claimReq = [s \in Slots |-> IdleClaim]
  /\ payouts = <<>>
  /\ metadata \in MetadataInputs
  /\ compressed = NotCalled
  /\ reconstructed = NotCalled
  /\ calls = <<>>
  /\ verified = NotVerified
  /\ swap = IdleSwap
  /\ transfers = <<>>
  /\ blob = EmptyTable
  /\ escrowStore = [p \in BlobPunks |-> NoListing]
  /\ retry = IdleScript
  /\ refunder = IdleScript
  /\ setters = [s \in Slots |-> IdleSetter]

\* const compressed = compressPunkMetadata(metadata)
Compress ==
  /\ compressed = NotCalled
  /\ compressed' = CompressPunkMetadata(metadata)
  /\ UNCHANGED <<serverVars, claimReq, payouts, metadata, reconstructed, calls,
                 toolVars>>

\* const reconstructed = decompressPunkMetadata(compressed, punkId)
Decompress(punkId) ==
  /\ compressed.ok
  /\ reconstructed = NotCalled
  /\ reconstructed' = DecompressPunkMetadata(compressed.data, punkId)
  /\ UNCHANGED <<serverVars, claimReq, payouts, metadata, compressed, calls,
                 toolVars>>

NextCodec ==
  \/ Compress
  \/ \E punkId \in PunkIds : Decompress(punkId)

SpecCodec == InitCodec /\ [][NextCodec]_vars

\* The attribute set of m in canonical order: ascending bit index, every
\* attribute once.
Canonicalise(m) ==
  SelectSeq(ATTRIBUTES_BY_TYPE[IndexOf(TYPE_NAMES, m.traits.type) + 1],
            LAMBDA a : \E k \in DOMAIN m.traits.attributes : m.traits.attributes[k] = a)

\* C26: for every metadata that encode accepts, decoding the payload succeeds
\* and yields the same type, the same background and the attribute set in
\* canonical order.
C26_RoundTrip ==
  (compressed.ok /\ reconstructed # NotCalled)
    => /\ reconstructed.ok
       /\ reconstructed.metadata.traits.type = metadata.traits.type
       /\ reconstructed.metadata.traits.background = metadata.traits.background
       /\ reconstructed.metadata.traits.attributes = Canonicalise(metadata)

\* popcount of the little-endian bitmap in bytes 1..4 of a payload.
RECURSIVE PopcountFrom(_, _)
PopcountFrom(data, i) ==
  IF i > 31 THEN 0 ELSE BitmapBit(data, i) + PopcountFrom(data, i + 1)

Popcount(data) == PopcountFrom(data, 0)

\* C27: every payload encode emits has payload[5] = popcount of the bitmap
\* in bytes 1..4.
C27_CountIsPopcount ==
  compressed.ok => compressed.data[6] = Popcount(compressed.data)

\* ------------------------------------------- the generator, run on seeds
\* Number of generateDeterministicPunk calls in one behaviour.
MaxCalls == 2

InitGenerator ==
  /\ punks = {}
  /\ history = <<>>
  /\ listings = {}
  /\ sales = <<>>
  /\ audit = <<>>
  /\ balance = 0
  /\ vtxos = {}
  /\ paidIn = 0
  /\ sent = <<>>
  /\ req = [s \in Slots |-> IdleReq]
  /\ clock = 0
  /\ last = NoResponse
  /\ claimReq = [s \in Slots |-> IdleClaim]
  /\ payouts = <<>>
  /\ metadata = NULL
  /\ compressed = NULL
  /\ reconstructed = NULL
  /\ calls = <<>>
  /\ verified = NotVerified
  /\ swap = IdleSwap
  /\ transfers = <<>>
  /\ blob = EmptyTable
  /\ escrowStore = [p \in BlobPunks |-> NoListing]
  /\ retry = IdleScript
  /\ refunder = IdleScript
  /\ setters = [s \in Slots |-> IdleSetter]

\* const punk = generateDeterministicPunk(seed)
Generate(seed) ==
  /\ Len(calls) < MaxCalls
  /\ calls' = Append(calls, [seed |-> seed, result |-> GenerateDeterministicPunk(seed)])
  /\ UNCHANGED <<serverVars, claimReq, payouts, metadata, compressed, reconstructed,
                 toolVars>>

NextGenerator == \E seed \in Seeds : Generate(seed)

SpecGenerator == InitGenerator /\ [][NextGenerator]_vars

\* C28: punkId is a function of the six payload bytes: two generated punks
\* with the same payload have the same punkId.
C28_PunkIdOfPayload ==
  \A i, j \in DOMAIN calls :
    ( /\ calls[i].result.ok /\ calls[j].result.ok
      /\ calls[i].result.data = calls[j].result.data )
      => calls[i].result.metadata.punkId = calls[j].result.metadata.punkId

VerifyOutpoints == {"t0:0", "t0:1", "t1:0", "t0:0x", "t0:0:9", "t0:x", "t0", ":0"}

\* The lists wallet.getVtxos() can resolve with: one entry per outpoint.
WalletLists ==
  {w \in SUBSET {Vtxo(o, v, spent) : o \in {"t0:0", "t0:1"}, v \in VtxoValues,
                                     spent \in BOOLEAN} :
     \A x, y \in w : OutpointOf(x) = OutpointOf(y) => x = y}

RECURSIVE SumValues(_)
SumValues(w) ==
  IF w = {} THEN 0
  ELSE LET x == CHOOSE y \in w : TRUE IN x.value + SumValues(w \ {x})

InitVerify ==
  /\ punks = {}
  /\ history = <<>>
  /\ listings = {}
  /\ sales = <<>>
  /\ audit = <<>>
  /\ vtxos \in WalletLists
  /\ balance = SumValues({x \in vtxos : ~x.isSpent})
  /\ paidIn = SumValues(vtxos)
  /\ sent = <<>>
  /\ req = [s \in Slots |-> IdleReq]
  /\ clock = 0
  /\ last = NoResponse
  /\ InitOther

\* const verification = await verifyVtxoInEscrow(vtxoOutpoint, expectedAmount)
Verify(vtxoOutpoint, expectedAmount, walletOk) ==
  /\ LET verification == VerifyVtxoInEscrow(vtxoOutpoint, expectedAmount, walletOk)
     IN verified' = [vtxoOutpoint |-> vtxoOutpoint, expectedAmount |-> expectedAmount,
                     walletOk |-> walletOk, exists |-> verification.exists,
                     error |-> verification.error]
  /\ UNCHANGED <<serverVars, claimReq, payouts, metadata, compressed,
                 reconstructed, calls, swap, transfers, blob, escrowStore,
                 scriptVars, setters>>

NextVerify ==
  \E o \in VerifyOutpoints, expectedAmount \in VtxoValues, walletOk \in BOOLEAN :
    Verify(o, expectedAmount, walletOk)

SpecVerify == InitVerify /\ [][NextVerify]_vars

\* C31: verifyVtxoInEscrow reports the deposit as verified exactly when the
\* wallet query succeeded and the wallet's VTXO list holds an unspent entry
\* whose txid:vout is the supplied outpoint and whose amount is the expected
\* amount; in every other case it reports it as not verified.
C31_VerifiedIffUnspentExact ==
  verified.vtxoOutpoint # NULL =>
    ( verified.exists <=>
        /\ verified.walletOk
        /\ \E x \in vtxos :
             /\ ~x.isSpent
             /\ OutpointOf(x) = verified.vtxoOutpoint
             /\ x.value = verified.expectedAmount )


\* ------------------------------------- serverless POST /api/escrow/execute
\* The execute function of the serverless deployment (api/escrow/execute.ts):
\* one action per segment of the handler between two awaits.
FEE_PERCENT == 1

\* Number of execute requests accepted in one behaviour of SpecFee.
MaxSwaps == 2

\* listing.price: "bigint as string"; "12.5" is a string BigInt() rejects.
PriceStrings == {"1", "99", "150", "5000", "12.5"}

IsBigInt(str) == str \in {"0", "1", "99", "150", "5000", "9500", "10000"}

\* Variant: the fee is a per-mille of the price.
Fee_PerMille(price) == (price * FEE_PERCENT) \div 1000

\* (price * BigInt(FEE_PERCENT)) / 100n
Fee(price) == (price * FEE_PERCENT) \div 100

\* readOwnershipTable(): the stored table, or the empty one when the blob is
\* missing or the read fails.
ReadOwnershipTable(ok) == IF ok THEN blob ELSE EmptyTable

\* res.status(code).json(...) of the execute function.
SwapRespond(code, body) ==
  /\ last' = Response(swap.id, "execute", swap.punkId, swap.buyerArkAddress, code, body)
  /\ swap' = IdleSwap

\* The request arrives; the handler awaits getEscrowListing(punkId).
SwapStart(punkId, buyerArkAddress) ==
  /\ swap.pc = "idle"
  /\ clock < MaxSwaps
  /\ clock' = clock + 1
  /\ swap' = [IdleSwap EXCEPT !.pc = "listing", !.id = clock + 1, !.punkId = punkId,
                              !.buyerArkAddress = buyerArkAddress]
  /\ UNCHANGED <<dbVars, walletVars, req, last>>
  /\ UNCHANGED <<claimReq, payouts, metadata, compressed, reconstructed, calls,
                 scriptVars, setters, verified, transfers, blob, escrowStore>>

\* getEscrowListing resolved: the status checks and the amounts.
SwapListing ==
  /\ swap.pc = "listing"
  /\ LET listing == escrowStore[swap.punkId]
     IN IF listing = NoListing THEN SwapRespond(404, "Listing not found")
        ELSE IF listing.status = "sold" THEN SwapRespond(409, "Punk already sold")
        ELSE IF listing.status = "cancelled" THEN SwapRespond(410, "Listing cancelled")
        ELSE IF ~IsBigInt(listing.price) THEN SwapRespond(500, "Failed to execute swap")
        ELSE LET price == BigInt(listing.price)
                 fee == Fee(price)
             IN /\ swap' = [swap EXCEPT !.pc = "balance", !.listing = listing,
                                        !.price = price, !.fee = fee,
                                        !.sellerReceives = price - fee]
                /\ last' = last
  /\ UNCHANGED <<dbVars, walletVars, req, clock>>
  /\ UNCHANGED <<claimReq, payouts, metadata, compressed, reconstructed, calls,
                 scriptVars, setters, verified, transfers, blob, escrowStore>>

\* getEscrowWallet() and getBalance() resolved (walletOk) or rejected.
SwapBalance(walletOk) ==
  /\ swap.pc = "balance"
  /\ IF ~walletOk THEN SwapRespond(500, "Failed to execute swap")
     ELSE IF balance < swap.price THEN SwapRespond(400, "Payment not received")
     ELSE /\ swap' = [swap EXCEPT !.pc = "vtxos"]
          /\ last' = last
  /\ UNCHANGED <<dbVars, walletVars, req, clock>>
  /\ UNCHANGED <<claimReq, payouts, metadata, compressed, reconstructed, calls,
                 scriptVars, setters, verified, transfers, blob, escrowStore>>

\* vtxos.find(v => v.value >= 10000 && v.value <= 10500 && !v.isSpent)
PunkVtxos == {v \in vtxos : v.value >= 10000 /\ v.value <= 10500 /\ ~v.isSpent}

\* getVtxos() resolved: the punk-sized VTXO is looked up.
SwapVtxos(walletOk) ==
  /\ swap.pc = "vtxos"
  /\ IF ~walletOk THEN SwapRespond(500, "Failed to execute swap")
     ELSE IF PunkVtxos = {} THEN SwapRespond(500, "Punk VTXO not found in escrow")
     ELSE /\ \E punkVtxo \in PunkVtxos :
               swap' = [swap EXCEPT !.pc = "send_punk", !.punkValue = punkVtxo.value]
          /\ last' = last
  /\ UNCHANGED <<dbVars, walletVars, req, clock>>
  /\ UNCHANGED <<claimReq, payouts, metadata, compressed, reconstructed, calls,
                 scriptVars, setters, verified, transfers, blob, escrowStore>>

\* escrowWallet.send(address, amount) resolving with a txid.
WalletSend(what, to, amount) ==
  /\ balance >= amount
  /\ balance' = balance - amount
  /\ transfers' = Append(transfers, [what |-> what, to |-> to, amount |-> amount,
                                     id |-> swap.id, punkId |-> swap.punkId])
  /\ UNCHANGED <<vtxos, paidIn, sent>>

\* escrowWallet.send(buyerArkAddress, BigInt(punkVtxo.value)) resolved or rejected.
SwapSendPunk(ok) ==
  /\ swap.pc = "send_punk"
  /\ IF ok
     THEN /\ WalletSend("punk", swap.buyerArkAddress, swap.punkValue)
          /\ swap' = [swap EXCEPT !.pc = "owner_read"]
          /\ last' = last
     ELSE /\ SwapRespond(500, "Failed to execute swap")
          /\ UNCHANGED <<walletVars, transfers>>
  /\ UNCHANGED <<dbVars, req, clock>>
  /\ UNCHANGED <<claimReq, payouts, metadata, compressed, reconstructed, calls,
                 scriptVars, setters, verified, blob, escrowStore>>

\* setPunkOwner: readOwnershipTable() resolved; table.ownership[punkId] is set.
SwapOwnerRead(ok) ==
  /\ swap.pc = "owner_read"
  /\ swap' = [swap EXCEPT !.pc = "owner_write",
                          !.table = [ReadOwnershipTable(ok) EXCEPT
                                       ![swap.punkId] = swap.buyerArkAddress]]
  /\ UNCHANGED <<dbVars, walletVars, req, clock, last>>
  /\ UNCHANGED <<claimReq, payouts, metadata, compressed, reconstructed, calls,
                 scriptVars, setters, verified, transfers, blob, escrowStore>>

\* setPunkOwner: put() of writeOwnershipTable resolved or rejected.
SwapOwnerWrite(ok) ==
  /\ swap.pc = "owner_write"
  /\ IF ok
     THEN /\ blob' = swap.table
          /\ swap' = [swap EXCEPT !.pc = "pay"]
          /\ last' = last
     ELSE /\ SwapRespond(500, "Failed to execute swap")
          /\ blob' = blob
  /\ UNCHANGED <<dbVars, walletVars, req, clock>>
  /\ UNCHANGED <<claimReq, payouts, metadata, compressed, reconstructed, calls,
                 scriptVars, setters, verified, transfers, escrowStore>>

\* escrowWallet.send(listing.sellerArkAddress, sellerReceives) resolved or rejected.
SwapPay(ok) ==
  /\ swap.pc = "pay"
  /\ IF ok
     THEN /\ WalletSend("payment", swap.listing.sellerArkAddress, swap.sellerReceives)
          /\ swap' = [swap EXCEPT !.pc = "mark", !.paymentTxid = TXID]
          /\ last' = last
     ELSE /\ SwapRespond(500, "Failed to execute swap")
          /\ UNCHANGED <<walletVars, transfers>>
  /\ UNCHANGED <<dbVars, req, clock>>
  /\ UNCHANGED <<claimReq, payouts, metadata, compressed, reconstructed, calls,
                 scriptVars, setters, verified, blob, escrowStore>>

\* updateEscrowStatus(punkId, 'sold', {...}) resolved or rejected.
SwapMark(ok) ==
  /\ swap.pc = "mark"
  /\ IF ok
     THEN /\ escrowStore' = [escrowStore EXCEPT ![swap.punkId] =
               [@ EXCEPT !.status = "sold", !.buyerAddress = swap.buyerArkAddress,
                         !.paymentTransferTxid = swap.paymentTxid]]
          /\ SwapRespond(200, "Atomic swap complete! Punk and payment transferred.")
     ELSE /\ SwapRespond(500, "Failed to execute swap")
          /\ escrowStore' = escrowStore
  /\ UNCHANGED <<dbVars, walletVars, req, clock>>
  /\ UNCHANGED <<claimReq, payouts, metadata, compressed, reconstructed, calls,
                 scriptVars, setters, verified, transfers, blob>>

\* Sats the escrow wallet holds when the buyer calls execute.
SwapFunds == {10000, 10150, 15000, 25000}

\* The serverless deployment with punk p1 listed by A, its punk-sized VTXO in
\* the escrow wallet, and the ownership table naming A.
InitSwap ==
  /\ punks = {}
  /\ history = <<>>
  /\ listings = {}
  /\ sales = <<>>
  /\ audit = <<>>
  /\ \E price \in PriceStrings, status \in {"pending", "sold", "cancelled"} :
       escrowStore = [p \in BlobPunks |->
         IF p = "p1"
         THEN [NoListing EXCEPT !.punkId = p, !.sellerArkAddress = "A",
                                !.price = price, !.status = status]
         ELSE NoListing]
  /\ \E v \in {9000, 10000, 10500} : vtxos = {Vtxo("t0:0", v, FALSE)}
  /\ balance \in SwapFunds
  /\ paidIn = balance
  /\ sent = <<>>
  /\ req = [s \in Slots |-> IdleReq]
  /\ clock = 0
  /\ last = NoResponse
  /\ claimReq = [s \in Slots |-> IdleClaim]
  /\ payouts = <<>>
  /\ metadata = NULL
  /\ compressed = NULL
  /\ reconstructed = NULL
  /\ calls = <<>>
  /\ verified = NotVerified
  /\ swap = IdleSwap
  /\ transfers = <<>>
  /\ blob = [p \in BlobPunks |-> IF p = "p1" THEN "A" ELSE NULL]
  /\ retry = IdleScript
  /\ refunder = IdleScript
  /\ setters = [s \in Slots |-> IdleSetter]

\* The server with punk p1 of A listed at a price and deposited, after the
\* buyer has paid the price into escrow.
InitSold ==
  /\ punks = {[punk_id |-> "p1", owner_address |-> "A"]}
  /\ history = <<[punk_id |-> "p1", from_address |-> NULL, to_address |-> "A"]>>
  /\ \E price \in {BigInt(str) : str \in {"1", "99", "150", "5000"}} :
       /\ listings = {[NoRow EXCEPT !.punk_id = "p1", !.seller_address = "A",
                                    !.price_sats = price, !.status = "deposited",
                                    !.created_at = 2,
                                    !.deposited_at = 3,
                                    !.punk_vtxo_outpoint = "t0:0"]}
       /\ balance = DEPOSIT_AMOUNT + price
  /\ sales = <<>>
  /\ audit = <<[action |-> "LIST_CREATED", punk_id |-> "p1", status |-> "SUCCESS"],
               [action |-> "DEPOSIT_CONFIRMED", punk_id |-> "p1", status |-> "SUCCESS"]>>
  /\ vtxos = {Vtxo("t0:0", DEPOSIT_AMOUNT, FALSE)}
  /\ paidIn = balance
  /\ sent = <<>>
  /\ req = [s \in Slots |-> IdleReq]
  /\ clock = 3
  /\ last = Response(3, "update-outpoint", "p1", NULL, 200, "deposited")
  /\ InitOther

InitFee == InitSwap \/ InitSold

NextFee ==
  \/ \E p \in BlobPunks, buyer \in Addrs : SwapStart(p, buyer)
  \/ SwapListing
  \/ \E walletOk \in BOOLEAN : SwapBalance(walletOk)
  \/ \E walletOk \in BOOLEAN : SwapVtxos(walletOk)
  \/ \E ok \in BOOLEAN : SwapSendPunk(ok)
  \/ \E ok \in BOOLEAN : SwapOwnerRead(ok)
  \/ \E ok \in BOOLEAN : SwapOwnerWrite(ok)
  \/ \E ok \in BOOLEAN : SwapPay(ok)
  \/ \E ok \in BOOLEAN : SwapMark(ok)
  \/ \E p \in Punks, buyer \in Addrs : punks # {} /\ ExecuteStart(p, buyer)
  \/ \E r \in Slots : ExecutePayBalance(r)
  \/ \E r \in Slots, ok \in BOOLEAN : ExecutePaySend(r, ok)
  \/ \E r \in Slots : ExecuteDepBalance(r)
  \/ \E r \in Slots, ok \in BOOLEAN : ExecuteDepSend(r, ok)

SpecFee == InitFee /\ [][NextFee]_vars

MaxRuns == 2

\* SELECT punk_id, seller_address, price_sats FROM listings
\* WHERE status = 'sold' AND payment_txid LIKE 'PAYMENT_FAILED%'
FailedPayments ==
  {l \in listings : l.status = "sold" /\ StartsWithPaymentFailed(l.payment_txid)}

\* wallet.sendBitcoin called by a script resolves with a txid.
ScriptSend(what, sale, amount) ==
  /\ balance >= amount
  /\ balance' = balance - amount
  /\ sent' = Append(sent, [what |-> what, to |-> sale.seller_address,
                           amount |-> amount, id |-> 0, punk_id |-> sale.punk_id])
  /\ UNCHANGED <<vtxos, paidIn>>

\* The next iteration of the script's for loop, or its end.
NextSale(script, todo) ==
  IF todo = {} THEN {[IdleScript EXCEPT !.runs = script.runs]}
  ELSE {[pc |-> "balance", runs |-> script.runs, todo |-> todo \ {sale}, sale |-> sale] :
          sale \in todo}

\* The script starts: the SELECT, and the first returnPunkToSeller call.
RetryStart ==
  /\ retry.pc = "idle"
  /\ retry.runs < MaxRuns
  /\ retry' \in NextSale([retry EXCEPT !.runs = retry.runs + 1], FailedPayments)
  /\ UNCHANGED <<serverVars, claimReq, payouts, metadata, compressed, reconstructed,
                 calls, verified, swap, transfers, blob, escrowStore, refunder, setters>>

\* returnPunkToSeller(sale.seller_address, sale.price_sats): getBalance resolved.
RetryBalance ==
  /\ retry.pc = "balance"
  /\ IF BalanceSufficient(retry.sale.price_sats)
     THEN retry' = [retry EXCEPT !.pc = "send"]
     ELSE retry' \in NextSale(retry, retry.todo)
  /\ UNCHANGED <<serverVars, claimReq, payouts, metadata, compressed, reconstructed,
                 calls, verified, swap, transfers, blob, escrowStore, refunder, setters>>

\* sendBitcoin resolved (ok): UPDATE listings SET payment_txid = ? WHERE
\* punk_id = ?; or rejected: the catch block.
RetrySend(ok) ==
  /\ retry.pc = "send"
  /\ IF ok
     THEN /\ ScriptSend("payment", retry.sale, retry.sale.price_sats)
          /\ listings' = {IF l.punk_id = retry.sale.punk_id
                          THEN [l EXCEPT !.payment_txid = TXID] ELSE l : l \in listings}
     ELSE UNCHANGED <<walletVars, listings>>
  /\ retry' \in NextSale(retry, retry.todo)
  /\ UNCHANGED <<punks, history, sales, audit, req, clock, last>>
  /\ UNCHANGED <<claimReq, payouts, metadata, compressed, reconstructed,
                 calls, verified, swap, transfers, blob, escrowStore, refunder, setters>>

NextRetry ==
  \/ \E p \in Punks, buyer \in Addrs : ExecuteStart(p, buyer)
  \/ \E r \in Slots : ExecutePayBalance(r)
  \/ \E r \in Slots, ok \in BOOLEAN : ExecutePaySend(r, ok)
  \/ \E r \in Slots : ExecuteDepBalance(r)
  \/ \E r \in Slots, ok \in BOOLEAN : ExecuteDepSend(r, ok)
  \/ RetryStart
  \/ RetryBalance
  \/ \E ok \in BOOLEAN : RetrySend(ok)

SpecRetry == InitSold /\ [][NextRetry]_vars

\* The sale-price payments sent for punk p, by execute or by the script.
SalePayments(p) == {i \in DOMAIN sent : sent[i].punk_id = p /\ sent[i].what = "payment"}

\* C35: the seller of a sale is sent the sale price at most once in total by
\* execute and the retry script, and for a listing whose payment_txid starts
\* with PAYMENT_FAILED no sale-price payment has been sent.
C35_PaidAtMostOnce ==
  \A p \in Punks :
    /\ Cardinality(SalePayments(p)) <= 1
    /\ StartsWithPaymentFailed(GetListing(p).payment_txid) => SalePayments(p) = {}


\* ------------------------------------------------ deposits of two listings
\* The server with two punks, to follow one escrow VTXO through the deposit
\* confirmations of two listings.
TwoPunks == {"p1", "p2"}

NextDeposit ==
  \/ \E o \in Outpoints, v \in VtxoValues : DepositVtxo(o, v)
  \/ \E p \in TwoPunks : Register("A", NULL, p)
  \/ \E p \in TwoPunks, price \in Prices : List(p, "A", price)
  \/ \E p \in TwoPunks, o \in Outpoints : UpdateOutpointStart(p, o)
  \/ \E r \in Slots, walletOk \in BOOLEAN : UpdateOutpointVerified(r, walletOk)

SpecDeposit == Init /\ [][NextDeposit]_vars

\* C37: an escrow VTXO outpoint confirms the deposit of at most one listing:
\* no two listings have reached deposited with the same outpoint.
C37_OneListingPerOutpoint ==
  \A l1, l2 \in listings :
    ( /\ l1.deposited_at # 0
      /\ l2.deposited_at # 0
      /\ l1.punk_vtxo_outpoint = l2.punk_vtxo_outpoint )
      => l1 = l2


\* ---------------------------------------- refund-cancelled-listings script
PUNK_DEPOSIT == 10000

\* SELECT punk_id, seller_address, deposited_at FROM listings
\* WHERE status = 'cancelled' AND deposited_at IS NOT NULL
CancelledWithDeposit ==
  {l \in listings : l.status = "cancelled" /\ l.deposited_at # 0}

\* The script starts: the SELECT, and the first returnPunkToSeller call.
RefundStart ==
  /\ refunder.pc = "idle"
  /\ refunder.runs < MaxRuns
  /\ refunder' \in NextSale([refunder EXCEPT !.runs = refunder.runs + 1],
                            CancelledWithDeposit)
  /\ UNCHANGED <<serverVars, claimReq, payouts, metadata, compressed, reconstructed,
                 calls, verified, swap, transfers, blob, escrowStore, retry, setters>>

\* returnPunkToSeller(listing.seller_address, PUNK_DEPOSIT): getBalance resolved.
RefundBalance ==
  /\ refunder.pc = "balance"
  /\ IF BalanceSufficient(PUNK_DEPOSIT)
     THEN refunder' = [refunder EXCEPT !.pc = "send"]
     ELSE refunder' \in NextSale(refunder, refunder.todo)
  /\ UNCHANGED <<serverVars, claimReq, payouts, metadata, compressed, reconstructed,
                 calls, verified, swap, transfers, blob, escrowStore, retry, setters>>

\* sendBitcoin resolved (ok): UPDATE listings SET deposited_at = NULL WHERE
\* punk_id = ?; or rejected: the catch block.
RefundSend(ok) ==
  /\ refunder.pc = "send"
  /\ IF ok
     THEN /\ ScriptSend("refund", refunder.sale, PUNK_DEPOSIT)
          /\ listings' = {IF l.punk_id = refunder.sale.punk_id
                          THEN [l EXCEPT !.deposited_at = 0] ELSE l : l \in listings}
     ELSE UNCHANGED <<walletVars, listings>>
  /\ refunder' \in NextSale(refunder, refunder.todo)
  /\ UNCHANGED <<punks, history, sales, audit, req, clock, last>>
  /\ UNCHANGED <<claimReq, payouts, metadata, compressed, reconstructed,
                 calls, verified, swap, transfers, blob, escrowStore, retry, setters>>

NextRefund ==
  \/ \E a \in Prices : BuyerPays(a)
  \/ \E p \in Punks, sellerAddress \in Addrs : CancelStart(p, sellerAddress)
  \/ \E r \in Slots : CancelBalance(r)
  \/ \E r \in Slots, ok \in BOOLEAN : CancelSend(r, ok)
  \/ RefundStart
  \/ RefundBalance
  \/ \E ok \in BOOLEAN : RefundSend(ok)

SpecRefund == InitSold /\ [][NextRefund]_vars

\* C39: the refund script never refunds the reserve of a listing that the
\* cancel endpoint has already refunded, and never refunds one listing twice:
\* when it sends a refund, no refund for that listing has been sent before.
C39_ScriptRefundsOnce ==
  [][ ( /\ refunder.pc = "send"
        /\ Len(sent') = Len(sent) + 1 )
        => ~\E k \in DOMAIN sent :
              /\ sent[k].what = "refund"
              /\ sent[k].punk_id = refunder.sale.punk_id ]_vars


\* ------------------------------------------------- ownership store (blob)
\* setPunkOwner calls made by the serverless functions; several function
\* instances run at the same time, each call suspended at its two awaits.
\* Number of setPunkOwner calls in one behaviour.
MaxSets == 3

\* The ownership tables the blob can hold when a call arrives.
InitBlob ==
  /\ punks = {}
  /\ history = <<>>
  /\ listings = {}
  /\ sales = <<>>
  /\ audit = <<>>
  /\ balance = 0
  /\ vtxos = {}
  /\ paidIn = 0
  /\ sent = <<>>
  /\ req = [s \in Slots |-> IdleReq]
  /\ clock = 0
  /\ last = NoResponse
  /\ claimReq = [s \in Slots |-> IdleClaim]
  /\ payouts = <<>>
  /\ metadata = NULL
  /\ compressed = NULL
  /\ reconstructed = NULL
  /\ calls = <<>>
  /\ verified = NotVerified
  /\ swap = IdleSwap
  /\ transfers = <<>>
  /\ blob \in [BlobPunks -> Addrs \cup {NULL}]
  /\ escrowStore = [p \in BlobPunks |-> NoListing]
  /\ retry = IdleScript
  /\ refunder = IdleScript
  /\ setters = [s \in Slots |-> IdleSetter]

\* setPunkOwner(punkId, ownerAddress) is called: it awaits readOwnershipTable().
SetPunkOwnerStart(s, punkId, ownerAddress) ==
  /\ setters[s].pc = "idle"
  /\ clock < MaxSets
  /\ clock' = clock + 1
  /\ setters' = [setters EXCEPT ![s] =
       [pc |-> "read", punkId |-> punkId, ownerAddress |-> ownerAddress,
        table |-> EmptyTable]]
  /\ UNCHANGED <<dbVars, walletVars, req, last>>
  /\ UNCHANGED <<claimReq, payouts, metadata, compressed, reconstructed, calls,
                 verified, swap, transfers, blob, escrowStore, scriptVars>>

\* readOwnershipTable() resolved with the stored table (ok) or, after a
\* failed list/fetch/parse, with the empty one; table.ownership[punkId] is
\* set and writeOwnershipTable(table) awaits put().
SetPunkOwnerRead(s, ok) ==
  /\ setters[s].pc = "read"
  /\ setters' = [setters EXCEPT ![s].pc = "write",
                                ![s].table = [ReadOwnershipTable(ok) EXCEPT
                                                ![setters[s].punkId] = setters[s].ownerAddress]]
  /\ UNCHANGED <<serverVars, claimReq, payouts, metadata, compressed, reconstructed,
                 calls, verified, swap, transfers, blob, escrowStore, scriptVars>>

\* put() resolved: the blob holds the caller's table; or rejected: the call
\* throws and the blob is as it was.
SetPunkOwnerWrite(s, ok) ==
  /\ setters[s].pc = "write"
  /\ blob' = IF ok THEN setters[s].table ELSE blob
  /\ setters' = [setters EXCEPT ![s] = IdleSetter]
  /\ UNCHANGED <<serverVars, claimReq, payouts, metadata, compressed, reconstructed,
                 calls, verified, swap, transfers, escrowStore, scriptVars>>

NextBlob ==
  \/ \E s \in Slots, p \in BlobPunks, a \in Addrs : SetPunkOwnerStart(s, p, a)
  \/ \E s \in Slots, ok \in BOOLEAN : SetPunkOwnerRead(s, ok)
  \/ \E s \in Slots, ok \in BOOLEAN : SetPunkOwnerWrite(s, ok)

SpecBlob == InitBlob /\ [][NextBlob]_vars

\* C40: setPunkOwner(p, a) changes only the entry for p: when a call writes
\* the table, the entry of every other punkId is what it was, also when calls
\* overlap and when reading the table failed.
C40_OnlyOwnEntry ==
  [][ \A s \in Slots :
        ( /\ setters[s].pc = "write"
          /\ setters'[s].pc = "idle" )
          => \A q \in BlobPunks \ {setters[s].punkId} : blob'[q] = blob[q] ]_vars
====
